---------------------------- MODULE Spec2Model ----------------------------
(***************************************************************************)
(* Model of n8n-nodes-schema-inferrer: the schema mutator (required-field  *)
(* marking, type-override rules) and the SQL DDL generator, translated     *)
(* from src/src/nodes/SchemaInferrer/schema-inferrer.description.ts.       *)
(*                                                                         *)
(* Strings are TLA+ strings; a character is a string of length one, read   *)
(* with SubSeq.  An optional field of a JSON-Schema node is a sequence of  *)
(* length 0 (absent) or 1 (present): `required: []` is << <<>> >>, a       *)
(* missing `required` is <<>>.                                             *)
(***************************************************************************)
EXTENDS Integers, Sequences, FiniteSets, TLC

VARIABLES items, orig, params, out, pc

vars == <<items, orig, params, out, pc>>

(***************************************************************************)
(* String primitives of the JavaScript runtime used by the source.         *)
(***************************************************************************)
Char(s, i) == SubSeq(s, i, i)

UpperLetters == "ABCDEFGHIJKLMNOPQRSTUVWXYZ"

LowerLetters == "abcdefghijklmnopqrstuvwxyz"

Digits == "0123456789"

CharsOf(alphabet) == {Char(alphabet, i) : i \in 1..Len(alphabet)}

UpperSet == CharsOf(UpperLetters)

LowerSet == CharsOf(LowerLetters)

DigitSet == CharsOf(Digits)

\* The lower-case letter of each upper-case letter.
LowerOf == [c \in UpperSet |->
              Char(LowerLetters, CHOOSE i \in 1..Len(UpperLetters) : Char(UpperLetters, i) = c)]

LowerChar(c) == IF c \in UpperSet THEN LowerOf[c] ELSE c

RECURSIVE ToLowerCase(_)
ToLowerCase(s) == IF Len(s) = 0 THEN "" ELSE LowerChar(Char(s, 1)) \o ToLowerCase(Tail(s))

IsSpace(c) == c = " "

RECURSIVE TrimStart(_)
TrimStart(s) == IF Len(s) > 0 /\ IsSpace(Char(s, 1)) THEN TrimStart(Tail(s)) ELSE s

RECURSIVE TrimEnd(_)
TrimEnd(s) == IF Len(s) > 0 /\ IsSpace(Char(s, Len(s))) THEN TrimEnd(SubSeq(s, 1, Len(s) - 1)) ELSE s

Trim(s) == TrimEnd(TrimStart(s))

StartsWith(s, p) == Len(p) <= Len(s) /\ SubSeq(s, 1, Len(p)) = p

EndsWith(s, p) == Len(p) <= Len(s) /\ SubSeq(s, Len(s) - Len(p) + 1, Len(s)) = p

\* String.prototype.indexOf, 1-based; 0 when there is no occurrence (-1 in JS).
IndexOf(s, p) ==
  LET hits == {i \in 1..(Len(s) - Len(p) + 1) : SubSeq(s, i, i + Len(p) - 1) = p}
  IN IF hits = {} THEN 0 ELSE CHOOSE i \in hits : \A j \in hits : i <= j

Includes(s, p) == IndexOf(s, p) # 0

\* String.prototype.split on a one-character separator.
RECURSIVE Split(_, _)
Split(s, sep) ==
  LET k == IndexOf(s, sep)
  IN IF k = 0 THEN <<s>>
     ELSE <<SubSeq(s, 1, k - 1)>> \o Split(SubSeq(s, k + 1, Len(s)), sep)

\* Array.prototype.includes on a sequence.
Has(seq, x) == \E i \in 1..Len(seq) : seq[i] = x

RECURSIVE SelectNonEmpty(_)
SelectNonEmpty(seq) ==
  IF Len(seq) = 0 THEN <<>>
  ELSE IF Len(Head(seq)) > 0 THEN <<Head(seq)>> \o SelectNonEmpty(Tail(seq))
       ELSE SelectNonEmpty(Tail(seq))

\* text.split(',').map(trim).filter(length > 0)
SplitList(text) ==
  LET parts == Split(text, ",")
  IN SelectNonEmpty([i \in 1..Len(parts) |-> Trim(parts[i])])

(***************************************************************************)
(* JSON-Schema nodes (interface JsonSchema).  type is <<>> when unset,     *)
(* <<"s", t>> for the string t and <<"u", t1, ..., tn>> for the array      *)
(* [t1, ..., tn].  format and $ref are "" when unset and maxLength is 0    *)
(* when unset (the source tests all three for truthiness).  anyOf / oneOf  *)
(* list the `type` of each alternative.  props and defs are sequences of   *)
(* [name, node] in key order.  defsAlias says that `definitions` is the    *)
(* document root's definitions object itself (resolveLocalRef attaches it  *)
(* by reference).                                                          *)
(***************************************************************************)
Scalar(t) == <<"s", t>>

Union(ts) == <<"u">> \o ts

Nd(type, format) ==
  [type |-> type, format |-> format, maxLength |-> 0, anyOf |-> <<>>, oneOf |-> <<>>,
   ref |-> "", props |-> <<>>, items |-> <<>>, required |-> <<>>, defs |-> <<>>,
   defsAlias |-> FALSE]

Prop(name, node) == [name |-> name, node |-> node]

Obj(props) == [Nd(Scalar("object"), "") EXCEPT !.props = <<props>>]

HasProperties(n) == n.props # <<>>

Properties(n) == n.props[1]

Keys(n) == [i \in 1..Len(Properties(n)) |-> Properties(n)[i].name]

HasDefinitions(n) == n.defs # <<>> \/ n.defsAlias

\* schema.required || []
RequiredOrEmpty(n) == IF n.required = <<>> THEN <<>> ELSE n.required[1]

(***************************************************************************)
(* Override rules of the SQL DDL operation.                                *)
(***************************************************************************)
JsonTypes ==
  {"string", "number", "integer", "boolean", "object", "array", "null",
   "uuid", "date-time", "date", "time", "json", "jsonb", "text"}

\* The alias table of normaliseType; "" stands for null (no such type).  The
\* table is an object literal, so map[lower] also finds the members every
\* object inherits: for constructor and __proto__ it is an object, which
\* map[lower] || null returns; the model writes that value as the key's name.
TypeAlias(lower) ==
  CASE lower \in {"string", "str"} -> "string"
    [] lower \in {"number", "num", "float", "double", "decimal"} -> "number"
    [] lower \in {"integer", "int"} -> "integer"
    [] lower \in {"boolean", "bool"} -> "boolean"
    [] lower \in {"object", "obj"} -> "object"
    [] lower \in {"array", "arr"} -> "array"
    [] lower = "null" -> "null"
    [] lower = "uuid" -> "uuid"
    [] lower \in {"date-time", "datetime", "timestamp"} -> "date-time"
    [] lower = "date" -> "date"
    [] lower = "time" -> "time"
    [] lower = "json" -> "json"
    [] lower = "jsonb" -> "jsonb"
    [] lower = "text" -> "text"
    [] lower \in {"constructor", "__proto__"} -> lower
    [] OTHER -> ""

normaliseType(t) == TypeAlias(ToLowerCase(Trim(t)))

Rule(fieldName, matchType, newType) ==
  [fieldName |-> fieldName, matchType |-> matchType, newType |-> newType]

\* The match type a field pattern asks for by its asterisks.
MatchStyle(leftPart) ==
  IF StartsWith(leftPart, "*") /\ EndsWith(leftPart, "*") /\ Len(leftPart) > 2 THEN "partial"
  ELSE IF StartsWith(leftPart, "*") /\ Len(leftPart) > 1 THEN "suffix"
  ELSE IF EndsWith(leftPart, "*") /\ Len(leftPart) > 1 THEN "prefix"
  ELSE "exact"

\* The field pattern without its asterisks.
PatternName(leftPart, style) ==
  CASE style = "partial" -> SubSeq(leftPart, 2, Len(leftPart) - 1)
    [] style = "suffix" -> SubSeq(leftPart, 2, Len(leftPart))
    [] style = "prefix" -> SubSeq(leftPart, 1, Len(leftPart) - 1)
    [] OTHER -> leftPart

\* The rule of a token whose two sides are known: none when the type is unknown
\* or the field name is empty.
TokenRule(leftPart, style, newType) ==
  IF newType = "" THEN <<>>
  ELSE IF PatternName(leftPart, style) = "" THEN <<>>
  ELSE <<Rule(PatternName(leftPart, style), style, newType)>>

TokenSides(leftPart, rightPart) ==
  TokenRule(leftPart, MatchStyle(leftPart), normaliseType(rightPart))

TokenAt(token, arrowIdx) ==
  IF arrowIdx = 0 THEN <<>>
  ELSE TokenSides(Trim(SubSeq(token, 1, arrowIdx - 1)),
                  Trim(SubSeq(token, arrowIdx + 2, Len(token))))

\* One token of the quick-rules text: <<rule>>, or <<>> when the token is skipped.
ParseToken(token) == TokenAt(token, IndexOf(token, "->"))

RECURSIVE ParseTokens(_)
ParseTokens(tokens) ==
  IF Len(tokens) = 0 THEN <<>> ELSE ParseToken(Head(tokens)) \o ParseTokens(Tail(tokens))

parseOverrideRules(text) ==
  IF Trim(text) = "" THEN <<>> ELSE ParseTokens(SplitList(text))

\* A row of the structured rule list: kept when its trimmed field name is not
\* empty and its type is known; matchType defaults to exact.
AdvancedRule(r) ==
  IF Trim(r.fieldName) # "" /\ normaliseType(r.newType) # ""
  THEN <<Rule(Trim(r.fieldName), IF r.matchType = "" THEN "exact" ELSE r.matchType,
              normaliseType(r.newType))>>
  ELSE <<>>

RECURSIVE AdvancedRules(_)
AdvancedRules(rows) ==
  IF Len(rows) = 0 THEN <<>> ELSE AdvancedRule(Head(rows)) \o AdvancedRules(Tail(rows))

\* combinedRules = [...parsedRules, ...advancedRules]
CombinedRules(text, rows) == parseOverrideRules(text) \o AdvancedRules(rows)

matchesFieldName(fieldName, ruleName, matchType) ==
  CASE matchType = "exact" -> fieldName = ruleName
    [] matchType = "partial" -> Includes(fieldName, ruleName)
    [] matchType = "prefix" -> StartsWith(fieldName, ruleName)
    [] matchType = "suffix" -> EndsWith(fieldName, ruleName)
    [] OTHER -> fieldName = ruleName

\* path.split('.').pop() || path
LocalName(path) ==
  LET parts == Split(path, ".")
      last == parts[Len(parts)]
  IN IF last = "" THEN path ELSE last

\* A rule body that only deletes the format of a node that has one and sets
\* the new type on a later application.
ApplyRuleClearOnly(node, rule) ==
  IF node.format # "" THEN [node EXCEPT !.format = ""]
  ELSE IF rule.newType \in {"uuid", "date-time", "date", "time"}
    THEN [node EXCEPT !.type = Scalar("string"), !.format = rule.newType]
  ELSE IF rule.newType \in {"json", "jsonb"}
    THEN [node EXCEPT !.type = Scalar("object"), !.format = rule.newType]
  ELSE IF rule.newType = "text"
    THEN [node EXCEPT !.type = Scalar("string"), !.format = "text"]
  ELSE [node EXCEPT !.type = Scalar(rule.newType)]

\* The body of the rule loop once a rule matched: the node's new type and format.
ApplyRule(node, rule) ==
  LET cleared == [node EXCEPT !.format = ""]
      t == rule.newType
  IN IF t \in {"uuid", "date-time", "date", "time"}
       THEN [cleared EXCEPT !.type = Scalar("string"), !.format = t]
     ELSE IF t \in {"json", "jsonb"}
       THEN [cleared EXCEPT !.type = Scalar("object"), !.format = t]
     ELSE IF t = "text"
       THEN [cleared EXCEPT !.type = Scalar("string"), !.format = "text"]
     ELSE [cleared EXCEPT !.type = Scalar(t)]

\* A rule loop without its break: the last matching rule is the one that stays.
RECURSIVE RuleLoopNoBreak(_, _, _)
RuleLoopNoBreak(fieldName, rules, i) ==
  LET hits == {k \in i..Len(rules) :
                 CASE rules[k].matchType = "partial" -> Includes(fieldName, rules[k].fieldName)
                   [] rules[k].matchType = "prefix" -> StartsWith(fieldName, rules[k].fieldName)
                   [] rules[k].matchType = "suffix" -> EndsWith(fieldName, rules[k].fieldName)
                   [] OTHER -> fieldName = rules[k].fieldName}
  IN IF hits = {} THEN 0 ELSE CHOOSE k \in hits : \A j \in hits : j <= k

\* for (const rule of rules) { if (matches) { ...; break; } } from index i on:
\* 0 when no rule from i on matches, else the index of the rule that is applied.
RECURSIVE RuleLoop(_, _, _)
RuleLoop(fieldName, rules, i) ==
  IF i > Len(rules) THEN 0
  ELSE IF matchesFieldName(fieldName, rules[i].fieldName, rules[i].matchType) THEN i
  ELSE RuleLoop(fieldName, rules, i + 1)

\* The onField callback of applyToSchema once the rule loop has run: k is the
\* index of the rule that matched (0 for none); applied is the appliedFields set.
OnFieldRule(path, node, rules, applied, k) ==
  IF k = 0 THEN [node |-> node, applied |-> applied]
  ELSE [node |-> ApplyRule(node, rules[k]), applied |-> applied \cup {path}]

\* The onField callback of applyToSchema.
OnField(path, node, rules, applied) ==
  IF path \in applied THEN [node |-> node, applied |-> applied]
  ELSE OnFieldRule(path, node, rules, applied, RuleLoop(LocalName(path), rules, 1))

DotPath(currentPath, key) == IF currentPath # "" THEN currentPath \o "." \o key ELSE key

WithItems(node, r) == [node |-> [node EXCEPT !.items = <<r.node>>], applied |-> r.applied]

RECURSIVE walkSchema(_, _, _, _)
RECURSIVE WalkProps(_, _, _, _, _)
RECURSIVE WalkNested(_, _, _, _)
RECURSIVE WalkAfterField(_, _, _)
RECURSIVE WalkField(_, _, _, _)
RECURSIVE WalkRest(_, _, _, _, _)
walkSchema(schema, rules, applied, currentPath) ==
  IF HasProperties(schema) THEN WalkProps(schema, rules, applied, currentPath, 1)
  ELSE [node |-> schema, applied |-> applied]

\* The recursion of walkSchema below a property whose callback has run.
WalkNested(value, rules, applied, dotPath) ==
  IF value.type = Scalar("object") /\ HasProperties(value)
    THEN walkSchema(value, rules, applied, dotPath)
  ELSE IF value.type = Scalar("array") /\ value.items # <<>>
            /\ value.items[1].type = Scalar("object") /\ HasProperties(value.items[1])
    THEN WithItems(value, walkSchema(value.items[1], rules, applied, dotPath))
  ELSE [node |-> value, applied |-> applied]

\* A property of the loop: the callback, then the recursion below the property.
WalkAfterField(r, rules, dotPath) == WalkNested(r.node, rules, r.applied, dotPath)

\* The recursion below a property decided from the node as it was before its
\* callback ran, the walk going through the node the callback left.
WalkNestedAsBefore(value, r, rules, dotPath) ==
  IF value.type = Scalar("object") /\ HasProperties(value)
    THEN walkSchema(r.node, rules, r.applied, dotPath)
  ELSE IF value.type = Scalar("array") /\ value.items # <<>>
            /\ value.items[1].type = Scalar("object") /\ HasProperties(value.items[1])
    THEN WithItems(r.node, walkSchema(r.node.items[1], rules, r.applied, dotPath))
  ELSE r

WalkFieldTypeBefore(value, rules, applied, dotPath) ==
  WalkNestedAsBefore(value, OnField(dotPath, value, rules, applied), rules, dotPath)

WalkField(value, rules, applied, dotPath) ==
  WalkAfterField(OnField(dotPath, value, rules, applied), rules, dotPath)

WalkRest(schema, rules, r, currentPath, i) ==
  WalkProps([schema EXCEPT !.props[1][i].node = r.node], rules, r.applied, currentPath, i + 1)

\* The loop over Object.entries(schema.properties), from entry i on.
WalkProps(schema, rules, applied, currentPath, i) ==
  IF i > Len(Properties(schema)) THEN [node |-> schema, applied |-> applied]
  ELSE WalkRest(schema, rules,
                WalkField(Properties(schema)[i].node, rules, applied,
                          DotPath(currentPath, Properties(schema)[i].name)),
                currentPath, i)

RECURSIVE WalkDefinitions(_, _, _, _)
RECURSIVE WalkDefinition(_, _, _, _)
WalkDefinition(defs, rules, r, i) ==
  WalkDefinitions([defs EXCEPT ![i].node = r.node], rules, r.applied, i + 1)

\* applyToSchema over the entries of schema.definitions, from entry i on.
WalkDefinitions(defs, rules, applied, i) ==
  IF i > Len(defs) THEN defs
  ELSE WalkDefinition(defs, rules, walkSchema(defs[i].node, rules, applied, ""), i)

\* The definitions pass of applyOverrides, r being the result of the root pass.
OverrideDefinitions(r, rules) ==
  IF r.node.defs # <<>>
  THEN [r.node EXCEPT !.defs = <<WalkDefinitions(r.node.defs[1], rules, r.applied, 1)>>]
  ELSE r.node

\* applyOverrides on a schema whose definitions are held by value.
applyOverrides(schema, rules) ==
  IF Len(rules) = 0 THEN schema
  ELSE OverrideDefinitions(walkSchema(schema, rules, {}, ""), rules)

(***************************************************************************)
(* Identifier handling of the SQL DDL operation.                           *)
(***************************************************************************)
\* [a-zA-Z0-9_]
IsWordChar(c) == c \in UpperSet \/ c \in LowerSet \/ c \in DigitSet \/ c = "_"

\* [a-zA-Z_]
IsLeadChar(c) == c \in UpperSet \/ c \in LowerSet \/ c = "_"

\* replace(/[^a-zA-Z0-9_]/g, '_')
RECURSIVE ReplaceUnsafe(_)
ReplaceUnsafe(s) ==
  IF Len(s) = 0 THEN ""
  ELSE (IF IsWordChar(Char(s, 1)) THEN Char(s, 1) ELSE "_") \o ReplaceUnsafe(Tail(s))

\* replace(/_+/g, '_')
RECURSIVE CollapseUnderscores(_)
CollapseUnderscores(s) ==
  IF Len(s) < 2 THEN s
  ELSE IF Char(s, 1) = "_" /\ Char(s, 2) = "_" THEN CollapseUnderscores(Tail(s))
  ELSE Char(s, 1) \o CollapseUnderscores(Tail(s))

\* The unquoted branch of sanitizeColumnName once the unsafe characters are replaced.
LeadSafe(collapsed) ==
  IF Len(collapsed) > 0 /\ ~IsLeadChar(Char(collapsed, 1)) THEN "_" \o collapsed ELSE collapsed

SanitizeCased(cased, quoteIdentifiers) ==
  IF quoteIdentifiers THEN cased ELSE LeadSafe(CollapseUnderscores(ReplaceUnsafe(cased)))

SanitizeTrimmed(trimmed, lowercaseAllFields, quoteIdentifiers) ==
  SanitizeCased(IF lowercaseAllFields THEN ToLowerCase(trimmed) ELSE trimmed, quoteIdentifiers)

sanitizeColumnName(name, lowercaseAllFields, quoteIdentifiers) ==
  SanitizeTrimmed(Trim(name), lowercaseAllFields, quoteIdentifiers)

\* /^[a-zA-Z_][a-zA-Z0-9_]*$/
IsPlainIdentifier(s) ==
  /\ Len(s) > 0
  /\ IsLeadChar(Char(s, 1))
  /\ \A i \in 2..Len(s) : IsWordChar(Char(s, i))

\* validateTableName: the message of the Error it throws, "" when it returns true.
validateTableName(tableName) ==
  IF Len(Trim(tableName)) = 0 THEN "Table name cannot be empty"
  ELSE IF ~IsPlainIdentifier(tableName)
    THEN "Table name must start with a letter or underscore and contain only letters, numbers, and underscores"
  ELSE ""

\* identifier.replace(/c/g, cc) for a one-character c
RECURSIVE DoubleChar(_, _)
DoubleChar(s, c) ==
  IF Len(s) = 0 THEN ""
  ELSE (IF Char(s, 1) = c THEN c \o c ELSE Char(s, 1)) \o DoubleChar(Tail(s), c)

\* The backtick has no TLA+ string literal: the model writes it as an apostrophe.
Backtick == "'"

\* A wrapper that delimits the identifier and leaves its characters as they are.
WrapIdentifierUndoubled(databaseType, identifier) ==
  CASE databaseType \in {"mysql2", "sqlite3"} -> Backtick \o identifier \o Backtick
    [] databaseType = "mssql" -> "[" \o identifier \o "]"
    [] OTHER -> "\"" \o identifier \o "\""

\* The function getWrapIdentifier returns when quoting is enabled.
WrapIdentifier(databaseType, identifier) ==
  CASE databaseType \in {"pg", "cockroachdb"} -> "\"" \o DoubleChar(identifier, "\"") \o "\""
    [] databaseType \in {"mysql2", "sqlite3"} -> Backtick \o DoubleChar(identifier, Backtick) \o Backtick
    [] databaseType = "mssql" -> "[" \o DoubleChar(DoubleChar(identifier, "["), "]") \o "]"
    [] databaseType = "oracledb" -> "\"" \o DoubleChar(identifier, "\"") \o "\""
    [] OTHER -> "\"" \o DoubleChar(identifier, "\"") \o "\""

(***************************************************************************)
(* Column types.  A column type is the table-builder call the source       *)
(* makes: specificType(name, sqlType), string(name, length), text, json,   *)
(* jsonb, integer, decimal(name, precision, scale), boolean, dateTime,     *)
(* date, time, increments.  The builder renders string(n) as varchar(n).   *)
(***************************************************************************)
Call(call) == [call |-> call, sqlType |-> "", length |-> 0, precision |-> 0, scale |-> 0]

SpecificType(sqlType) == [Call("specificType") EXCEPT !.sqlType = sqlType]

StringOf(length) == [Call("string") EXCEPT !.length = length]

\* A JSON storage that is plain text on every dialect.
JsonStorageText(databaseType) == Call("text")

\* A JSON storage that knows pg and none of its relatives.
JsonStoragePgOnly(databaseType) ==
  CASE databaseType = "pg" -> Call("jsonb")
    [] databaseType = "mysql2" -> Call("json")
    [] databaseType = "mssql" -> SpecificType("nvarchar(max)")
    [] databaseType = "oracledb" -> SpecificType("clob")
    [] OTHER -> Call("text")

\* A JSON storage whose fallback is the json column type.
JsonStorageJsonFallback(databaseType) ==
  CASE databaseType \in {"pg", "cockroachdb"} -> Call("jsonb")
    [] databaseType = "mssql" -> SpecificType("nvarchar(max)")
    [] databaseType = "oracledb" -> SpecificType("clob")
    [] OTHER -> Call("json")

\* The shared array / object / json / jsonb branch: the dialect's JSON storage.
JsonStorage(databaseType) ==
  CASE databaseType \in {"pg", "cockroachdb"} -> Call("jsonb")
    [] databaseType = "mysql2" -> Call("json")
    [] databaseType = "mssql" -> SpecificType("nvarchar(max)")
    [] databaseType = "oracledb" -> SpecificType("clob")
    [] OTHER -> Call("text")

\* type.find((t) => t !== 'null') || 'string', or type || 'string'
ActualType(type) ==
  IF type = <<>> THEN "string"
  ELSE IF type[1] = "s" THEN (IF type[2] = "" THEN "string" ELSE type[2])
  ELSE LET idx == {i \in 2..Len(type) : type[i] # "null"}
       IN IF idx = {} THEN "string"
          ELSE LET t == type[CHOOSE i \in idx : \A j \in idx : i <= j]
               IN IF t = "" THEN "string" ELSE t

\* A switch on actualType whose string case turns to text at the limit itself.
MapByTypeBelowLimit(property, databaseType) ==
  CASE ActualType(property.type) = "string" ->
         IF property.maxLength # 0 /\ property.maxLength < 255 THEN StringOf(property.maxLength)
         ELSE IF property.maxLength # 0 /\ property.maxLength >= 255 THEN Call("text")
         ELSE StringOf(255)
    [] ActualType(property.type) = "integer" -> Call("integer")
    [] ActualType(property.type) = "number" ->
         [Call("decimal") EXCEPT !.precision = 10, !.scale = 2]
    [] ActualType(property.type) = "boolean" -> Call("boolean")
    [] ActualType(property.type) \in {"array", "object"} -> JsonStorage(databaseType)
    [] OTHER -> StringOf(255)

\* The switch on actualType of mapJsonSchemaTypeToKnex.
MapByType(property, databaseType) ==
  LET actualType == ActualType(property.type)
      maxLength == property.maxLength
  IN CASE actualType = "string" ->
            IF maxLength # 0 /\ maxLength <= 255 THEN StringOf(maxLength)
            ELSE IF maxLength # 0 /\ maxLength > 255 THEN Call("text")
            ELSE StringOf(255)
       [] actualType = "integer" -> Call("integer")
       [] actualType = "number" -> [Call("decimal") EXCEPT !.precision = 10, !.scale = 2]
       [] actualType = "boolean" -> Call("boolean")
       [] actualType = "array" -> JsonStorage(databaseType)
       [] actualType = "object" -> JsonStorage(databaseType)
       [] OTHER -> StringOf(255)

mapJsonSchemaTypeToKnex(property, databaseType) ==
  LET format == property.format
  IN CASE format = "uuid" ->
            (CASE databaseType \in {"pg", "cockroachdb"} -> SpecificType("uuid")
               [] databaseType = "mssql" -> SpecificType("uniqueidentifier")
               [] databaseType = "mysql2" -> SpecificType("char(36)")
               [] databaseType = "oracledb" -> SpecificType("char(36)")
               [] OTHER -> SpecificType("text"))
       [] format = "date-time" ->
            (CASE databaseType \in {"pg", "cockroachdb"} -> SpecificType("timestamptz")
               [] databaseType = "mssql" -> SpecificType("datetimeoffset")
               [] OTHER -> Call("dateTime"))
       [] format = "date" -> Call("date")
       [] format = "time" -> Call("time")
       [] format = "text" -> Call("text")
       [] format \in {"json", "jsonb"} -> JsonStorage(databaseType)
       [] format \in {"email", "uri", "hostname"} -> StringOf(255)
       [] OTHER -> MapByType(property, databaseType)

\* A null test that forgets the union form of `type`.
schemaAllowsNullScalarOnly(property) ==
  \/ property.type = Scalar("null")
  \/ Has(property.anyOf, "null")
  \/ Has(property.oneOf, "null")

schemaAllowsNull(property) ==
  \/ property.type = Scalar("null")
  \/ (property.type # <<>> /\ property.type[1] = "u" /\ Has(Tail(property.type), "null"))
  \/ Has(property.anyOf, "null")
  \/ Has(property.oneOf, "null")

\* A column builder that gives the key constraint to auto-increment columns only.
ColumnOfKeyless(sanitizedName, propertyName, propertyDef, isPrimaryKey, isRequired, databaseType) ==
  IF isPrimaryKey /\ propertyDef.type = Scalar("integer")
  THEN [name |-> sanitizedName, property |-> propertyName, type |-> Call("increments"),
        primary |-> TRUE, notNull |-> FALSE]
  ELSE [name |-> sanitizedName, property |-> propertyName,
        type |-> mapJsonSchemaTypeToKnex(propertyDef, databaseType),
        primary |-> FALSE, notNull |-> isRequired]

\* The column of a property whose sanitized name and key membership are known.
ColumnOf(sanitizedName, propertyName, propertyDef, isPrimaryKey, isRequired, databaseType) ==
  IF isPrimaryKey /\ propertyDef.type = Scalar("integer")
  THEN [name |-> sanitizedName, property |-> propertyName, type |-> Call("increments"),
        primary |-> TRUE, notNull |-> FALSE]
  ELSE [name |-> sanitizedName, property |-> propertyName,
        type |-> mapJsonSchemaTypeToKnex(propertyDef, databaseType),
        primary |-> isPrimaryKey, notNull |-> isRequired /\ ~isPrimaryKey]

ColumnNamed(sanitizedName, propertyName, propertyDef, requiredFields, sanitizedPrimaryKeyFields, databaseType) ==
  ColumnOf(sanitizedName, propertyName, propertyDef,
           Has(sanitizedPrimaryKeyFields, sanitizedName),
           Has(requiredFields, propertyName) /\ ~schemaAllowsNull(propertyDef), databaseType)

\* One iteration of the loop of processSchemaProperties: the column of a property.
Column(propertyName, propertyDef, requiredFields, sanitizedPrimaryKeyFields, databaseType, lowercaseAllFields, quoteIdentifiers) ==
  ColumnNamed(sanitizeColumnName(propertyName, lowercaseAllFields, quoteIdentifiers),
              propertyName, propertyDef, requiredFields, sanitizedPrimaryKeyFields, databaseType)

SanitizedNames(names, lowercaseAllFields, quoteIdentifiers) ==
  [i \in 1..Len(names) |-> sanitizeColumnName(names[i], lowercaseAllFields, quoteIdentifiers)]

ColumnsOf(props, requiredFields, sanitizedPrimaryKeyFields, databaseType, lowercaseAllFields, quoteIdentifiers) ==
  [i \in 1..Len(props) |->
     Column(props[i].name, props[i].node, requiredFields, sanitizedPrimaryKeyFields,
            databaseType, lowercaseAllFields, quoteIdentifiers)]

\* processSchemaProperties on a schema that has properties: the columns it adds
\* to the table, in the order of Object.entries(properties).
processSchemaProperties(schema, databaseType, primaryKeyFields, lowercaseAllFields, quoteIdentifiers) ==
  ColumnsOf(Properties(schema), RequiredOrEmpty(schema),
            SanitizedNames(primaryKeyFields, lowercaseAllFields, quoteIdentifiers),
            databaseType, lowercaseAllFields, quoteIdentifiers)

(***************************************************************************)
(* Reference resolution.  A document is a root node whose `definitions`    *)
(* are held by value; a definition entry carries no definitions of its own *)
(* until resolveLocalRef attaches the root's (defsAlias), and every $ref   *)
(* of a document is either "#/definitions/<name>" or not local at all.     *)
(***************************************************************************)
RootDefinitions(root) == IF root.defs = <<>> THEN <<>> ELSE root.defs[1]

IndexOfName(entries, name) ==
  LET hits == {i \in 1..Len(entries) : entries[i].name = name}
  IN IF hits = {} THEN 0 ELSE CHOOSE i \in hits : \A j \in hits : i <= j

\* A lookup that takes the first definition whatever the ref names.
ResolvePathFirst(path, defs) == IF Len(defs) > 0 THEN 1 ELSE 0

\* The walk of resolveLocalRef along the path segments of the ref.
ResolvePath(path, defs) ==
  IF Len(path) = 2 /\ path[1] = "definitions" THEN IndexOfName(defs, path[2]) ELSE 0

\* resolveLocalRef against the definitions of its root argument: the index of
\* the entry the ref names, 0 for null.
resolveLocalRef(ref, defs) ==
  IF ~StartsWith(ref, "#/") THEN 0 ELSE ResolvePath(Split(SubSeq(ref, 3, Len(ref)), "/"), defs)

\* if (!current.definitions && root.definitions) current.definitions = root.definitions
AttachDefinitions(node) ==
  IF node.defs = <<>> /\ ~node.defsAlias THEN [node EXCEPT !.defsAlias = TRUE] ELSE node

isRefSchema(node) == node.ref # ""

\* The while loop of dereferenceSchema.  Every node after the first is a fresh
\* copy, so the visited set never stops the loop: a chain that makes more hops
\* than there are definitions repeats one and never ends (hang).
RECURSIVE DerefLoop(_, _, _, _, _)
RECURSIVE DerefHop(_, _, _, _, _, _)
DerefHop(current, defs, fuel, hops, last, idx) ==
  IF idx = 0
    THEN [node |-> current, defs |-> defs, hang |-> FALSE, hops |-> hops, idx |-> last]
  ELSE IF fuel = 0
    THEN [node |-> current, defs |-> defs, hang |-> TRUE, hops |-> hops, idx |-> last]
  ELSE DerefLoop(AttachDefinitions(defs[idx].node),
                 [defs EXCEPT ![idx].node = AttachDefinitions(defs[idx].node)],
                 fuel - 1, hops + 1, idx)

DerefLoop(current, defs, fuel, hops, last) ==
  IF ~isRefSchema(current)
    THEN [node |-> current, defs |-> defs, hang |-> FALSE, hops |-> hops, idx |-> last]
  ELSE DerefHop(current, defs, fuel, hops, last, resolveLocalRef(current.ref, defs))

DerefResult(schema, defs, rootHasDefinitions, r) ==
  [node |-> IF r.hops = 0
            THEN (IF rootHasDefinitions THEN AttachDefinitions(schema) ELSE schema)
            ELSE r.node,
   defs |-> IF rootHasDefinitions THEN r.defs ELSE defs, hang |-> r.hang,
   copied |-> r.hops > 0, idx |-> r.idx]

\* dereferenceSchema(schema, root), defs being root.definitions (<<>> when root
\* has none).  node is the schema it returns; copied says that it is a copy of
\* definition idx and not the argument itself; defs are the definitions after
\* the attachments of resolveLocalRef.
dereferenceSchema(schema, defs, rootHasDefinitions) ==
  DerefResult(schema, defs, rootHasDefinitions,
              DerefLoop(schema, IF rootHasDefinitions THEN defs ELSE <<>>, Len(defs), 0, 0))

NonEmptyProperties(n) == HasProperties(n) /\ Len(Properties(n)) > 0

\* findSchemaProperties: where the properties were found ("self", "def" with
\* the entry's index, or "none" for null).
findSchemaProperties(schema, defs) ==
  LET hits == {i \in 1..Len(defs) : NonEmptyProperties(defs[i].node)}
  IN IF NonEmptyProperties(schema) THEN [where |-> "self", idx |-> 0]
     ELSE IF HasDefinitions(schema) /\ hits # {}
       THEN [where |-> "def", idx |-> CHOOSE i \in hits : \A j \in hits : i <= j]
     ELSE [where |-> "none", idx |-> 0]

\* The object getEffectiveRootObjectSchema builds when it flattens.
Flattened(resolvedOnlyProp, effective) ==
  [Nd(<<>>, "") EXCEPT !.props = resolvedOnlyProp.props,
                       !.required = <<RequiredOrEmpty(resolvedOnlyProp)>>,
                       !.defsAlias = HasDefinitions(effective)]

\* The single-property step of getEffectiveRootObjectSchema: d3 is the only
\* property dereferenced, org2 the object effective was taken from.
EffectiveOfOnlyProp(root, root1, org2, d3, onlyProp3) ==
  LET root3 == IF org2.kind = "root"
                 THEN [root1 EXCEPT !.defs = IF root.defs = <<>> THEN <<>> ELSE <<d3.defs>>,
                                    !.props[1][1].node = onlyProp3]
               ELSE [root1 EXCEPT !.defs =
                       <<[d3.defs EXCEPT ![org2.idx].node.props[1][1].node = onlyProp3]>>]
  IN IF d3.hang THEN [schema |-> root, root |-> root, hang |-> TRUE, origin |-> org2]
     ELSE IF HasProperties(d3.node)
       THEN [schema |-> Flattened(d3.node, IF org2.kind = "root" THEN root3
                                           ELSE root3.defs[1][org2.idx].node),
             root |-> root3, hang |-> FALSE,
             origin |-> [kind |-> "flat", idx |-> IF d3.copied THEN d3.idx ELSE 0]]
     ELSE [schema |-> IF org2.kind = "root" THEN root3 ELSE root3.defs[1][org2.idx].node,
           root |-> root3, hang |-> FALSE, origin |-> org2]

EffectiveOfSingle(root, root1, eff2, org2, d3) ==
  EffectiveOfOnlyProp(root, root1, org2, d3,
                      IF d3.copied THEN Properties(eff2)[1].node ELSE d3.node)

\* The steps of getEffectiveRootObjectSchema after the definitions fallback:
\* eff2 is effective, defs the root's definitions.
EffectiveOfObject(root, root1, defs, eff2, org2) ==
  IF ~(HasProperties(eff2) /\ Len(Properties(eff2)) = 1)
    THEN [schema |-> eff2, root |-> root1, hang |-> FALSE, origin |-> org2]
  ELSE EffectiveOfSingle(root, root1, eff2, org2,
         dereferenceSchema(Properties(eff2)[1].node, defs, HasDefinitions(eff2)))

EffectiveOfFound(root, root1, d1, eff1, info) ==
  IF ~HasProperties(eff1) /\ HasDefinitions(eff1) /\ info.where = "def"
    THEN EffectiveOfObject(root, root1, d1.defs, d1.defs[info.idx].node,
                           [kind |-> "def", idx |-> info.idx])
  ELSE EffectiveOfObject(root, root1, d1.defs, eff1,
                         IF d1.copied THEN [kind |-> "copy", idx |-> d1.idx]
                         ELSE [kind |-> "root", idx |-> 0])

EffectiveOfRoot(root, root1, d1, eff1) ==
  IF d1.hang
    THEN [schema |-> root, root |-> root, hang |-> TRUE, origin |-> [kind |-> "root", idx |-> 0]]
  ELSE EffectiveOfFound(root, root1, d1, eff1, findSchemaProperties(eff1, d1.defs))

EffectiveOfDeref(root, root1, d1) ==
  EffectiveOfRoot(root, root1, d1, IF d1.copied THEN d1.node ELSE root1)

EffectiveOfFirst(root, d1) ==
  EffectiveOfDeref(root, IF root.defs = <<>> THEN root ELSE [root EXCEPT !.defs = <<d1.defs>>],
                   d1)

\* getEffectiveRootObjectSchema(root).  schema is the result, root the document
\* after the call (definitions attached to the nodes that were resolved), origin
\* the object of the document the result is or was copied from: the root, a
\* definition entry (def), a copy of one (copy), or the flattened wrapper (flat).
getEffectiveRootObjectSchema(root) ==
  EffectiveOfFirst(root, dereferenceSchema(root, RootDefinitions(root), root.defs # <<>>))

(***************************************************************************)
(* Lowercase All Fields.                                                   *)
(***************************************************************************)
\* newProperties[key.toLowerCase()] = value for one entry: a key that is
\* already there keeps its place and takes the later value.
PutKey(acc, key, value, at) ==
  IF at = 0 THEN Append(acc, Prop(key, value)) ELSE [acc EXCEPT ![at].node = value]

PutLowerKey(acc, key, value) == PutKey(acc, key, value, IndexOfName(acc, key))

\* The loop over Object.entries(schema.properties), from entry i on.
RECURSIVE LowerKeys(_, _, _)
LowerKeys(props, i, acc) ==
  IF i > Len(props) THEN acc
  ELSE LowerKeys(props, i + 1, PutLowerKey(acc, ToLowerCase(props[i].name), props[i].node))

\* The first two blocks of lowercaseSchemaProperties: the keys of properties
\* and the entries of required.
LowercaseOwn(schema) ==
  IF HasProperties(schema)
  THEN [schema EXCEPT
          !.props = <<LowerKeys(Properties(schema), 1, <<>>)>>,
          !.required = IF schema.required = <<>> THEN <<>>
                       ELSE <<[i \in 1..Len(schema.required[1]) |->
                                 ToLowerCase(schema.required[1][i])]>>]
  ELSE schema

RECURSIVE lowercaseSchemaProperties(_)
RECURSIVE LowercaseDefinitions(_)
RECURSIVE LowercaseItems(_)
RECURSIVE LowercaseValue(_)
RECURSIVE LowercaseNested(_)
\* The recursion into the entries of definitions.
LowercaseDefinitions(s1) ==
  IF s1.defs # <<>>
  THEN [s1 EXCEPT !.defs = <<[i \in 1..Len(s1.defs[1]) |->
           Prop(s1.defs[1][i].name, lowercaseSchemaProperties(s1.defs[1][i].node))]>>]
  ELSE s1

LowercaseItems(v1) ==
  IF v1.items # <<>> /\ HasProperties(v1.items[1])
  THEN [v1 EXCEPT !.items = <<lowercaseSchemaProperties(v1.items[1])>>]
  ELSE v1

LowercaseValue(v) ==
  LowercaseItems(IF HasProperties(v) \/ v.items # <<>> THEN lowercaseSchemaProperties(v) ELSE v)

\* The recursion into nested objects and array items.
LowercaseNested(s2) ==
  IF HasProperties(s2)
  THEN [s2 EXCEPT !.props = <<[i \in 1..Len(Properties(s2)) |->
                     Prop(Properties(s2)[i].name, LowercaseValue(Properties(s2)[i].node))]>>]
  ELSE s2

\* lowercaseSchemaProperties on the part of the tree that is held by value.
lowercaseSchemaProperties(schema) == LowercaseNested(LowercaseDefinitions(LowercaseOwn(schema)))

\* Whether lowercaseSchemaProperties(schema) reaches a node whose definitions
\* are the root's definitions object.
RECURSIVE ReachesRootDefinitions(_)
ReachesRootDefinitions(schema) ==
  \/ schema.defsAlias
  \/ /\ schema.defs # <<>>
     /\ \E i \in 1..Len(schema.defs[1]) : ReachesRootDefinitions(schema.defs[1][i].node)
  \/ /\ HasProperties(schema)
     /\ \E i \in 1..Len(Properties(schema)) :
          LET v == Properties(schema)[i].node
          IN \/ (HasProperties(v) \/ v.items # <<>>) /\ ReachesRootDefinitions(v)
             \/ v.items # <<>> /\ HasProperties(v.items[1]) /\ ReachesRootDefinitions(v.items[1])

\* lowercaseSchemaProperties never returns (it recurses until the stack is
\* exhausted) when it enters the root's definitions and one of the entries
\* leads back into them.
LowercaseOverflows(schema, defs) ==
  /\ ReachesRootDefinitions(schema)
  /\ \E i \in 1..Len(defs) : ReachesRootDefinitions(defs[i].node)

(***************************************************************************)
(* generateSqlDdl.                                                         *)
(***************************************************************************)
NoResult ==
  [status |-> "none", errorType |-> "", message |-> "", steps |-> <<>>, tableName |-> "",
   tableIdent |-> "", columns |-> <<>>, primaryKeyFields |-> <<>>, rules |-> <<>>,
   resolved |-> Nd(<<>>, ""), schema |-> Nd(<<>>, ""), knexCreated |-> FALSE, knexDestroyed |-> FALSE]

Thrown(errorType, message, steps) ==
  [NoResult EXCEPT !.status = "error", !.errorType = errorType, !.message = message,
                   !.steps = steps]

\* A detection that compares the name with 'id' as written.
RECURSIVE FirstIdNameExact(_)
FirstIdNameExact(names) ==
  IF Len(names) = 0 THEN <<>>
  ELSE IF Head(names) = "id" THEN <<Head(names)>>
  ELSE FirstIdNameExact(Tail(names))

\* names.find((name) => name.toLowerCase() === 'id'), as a list of at most one name.
RECURSIVE FirstIdName(_)
FirstIdName(names) ==
  IF Len(names) = 0 THEN <<>>
  ELSE IF ToLowerCase(Head(names)) = "id" THEN <<Head(names)>>
  ELSE FirstIdName(Tail(names))

\* A key list that adds the detected id column to the listed names.
PrimaryKeyFieldsWithDetected(primaryKeyFieldsInput, autoDetectPrimaryKey, lowercaseAllFields, propertyNames) ==
  (IF lowercaseAllFields
   THEN [i \in 1..Len(SplitList(primaryKeyFieldsInput)) |->
           ToLowerCase(SplitList(primaryKeyFieldsInput)[i])]
   ELSE SplitList(primaryKeyFieldsInput))
  \o (IF autoDetectPrimaryKey THEN FirstIdName(propertyNames) ELSE <<>>)

PrimaryKeyFields(primaryKeyFieldsInput, autoDetectPrimaryKey, lowercaseAllFields, propertyNames) ==
  LET listed == SplitList(primaryKeyFieldsInput)
  IN IF Trim(primaryKeyFieldsInput) # ""
       THEN IF lowercaseAllFields THEN [i \in 1..Len(listed) |-> ToLowerCase(listed[i])]
            ELSE listed
     ELSE IF autoDetectPrimaryKey THEN FirstIdName(propertyNames)
     ELSE <<>>

\* What the wrapIdentifier hook returns for a name; without the hook the
\* builder quotes the name itself.
Identifier(databaseType, quoteIdentifiers, name) ==
  IF quoteIdentifiers THEN WrapIdentifier(databaseType, name) ELSE name

\* const knexInstance = knex(knexConfig): the SQL-builder handle is open.
OpenKnex(result) == [result EXCEPT !.knexCreated = TRUE]

\* A release that only the successful path reaches.
DestroyKnexOnSuccess(result) ==
  IF result.status = "error" THEN result ELSE [result EXCEPT !.knexDestroyed = TRUE]

\* finally { void knexInstance.destroy(); }
DestroyKnex(result) == [result EXCEPT !.knexDestroyed = TRUE]

\* throw new Error(message) inside convertSchemaToSql.
Failed(result, message) ==
  [result EXCEPT !.status = "error", !.errorType = "Error", !.message = message]

\* The catch of generateSqlDdl around convertSchemaToSql.
Caught(result) ==
  IF result.status = "error"
  THEN [result EXCEPT !.errorType = "NodeOperationError",
                      !.message = "Failed to generate SQL DDL: " \o result.message]
  ELSE result

\* knex.schema.createTable(sanitizedTableName, ...) with the columns cols.
CreateTable(sanitizedTableName, databaseType, quoteIdentifiers, cols, result) ==
  [result EXCEPT !.status = "ok", !.tableName = sanitizedTableName,
     !.tableIdent = Identifier(databaseType, quoteIdentifiers, sanitizedTableName),
     !.columns = [i \in 1..Len(cols) |->
                    [name |-> cols[i].name, property |-> cols[i].property,
                     type |-> cols[i].type, primary |-> cols[i].primary,
                     notNull |-> cols[i].notNull,
                     identifier |-> Identifier(databaseType, quoteIdentifiers, cols[i].name)]]]

\* The try block of convertSchemaToSql: the table and the columns handed to
\* the SQL builder.  sqlStatements is the length of the array builder.toSQL()
\* returns, which is the builder's to decide.
BuildSql(schema, tableName, databaseType, primaryKeyFields, lowercaseAllFields, quoteIdentifiers, sqlStatements, result) ==
  IF ~HasProperties(schema) THEN Failed(result, "Schema has no properties to convert")
  ELSE IF sqlStatements = 0 THEN Failed(result, "Failed to generate SQL: No queries generated")
  ELSE CreateTable(IF quoteIdentifiers THEN tableName
                   ELSE sanitizeColumnName(tableName, lowercaseAllFields, FALSE),
                   databaseType, quoteIdentifiers,
                   processSchemaProperties(schema, databaseType, primaryKeyFields,
                                           lowercaseAllFields, quoteIdentifiers),
                   result)

\* convertSchemaToSql: open the handle, build, release the handle.
convertSchemaToSql(schema, tableName, databaseType, primaryKeyFields, lowercaseAllFields, quoteIdentifiers, sqlStatements, result) ==
  DestroyKnex(BuildSql(schema, tableName, databaseType, primaryKeyFields, lowercaseAllFields,
                       quoteIdentifiers, sqlStatements, OpenKnex(result)))

NoPropertiesMessage ==
  "Schema must have at least one property to generate SQL. Check that the schema has a \"properties\" object at the root level or in \"definitions\"."

\* The schema variable of generateSqlDdl names an object of the input
\* document when the resolution returned the root itself (place root) or an
\* entry of its definitions (place def); lowercaseSchemaProperties and
\* applyOverrides change that object where it is.  A copy made by the
\* resolution (place none) is changed on its own.
PlaceOf(origin, info) ==
  IF info.where = "def" THEN [kind |-> "def", idx |-> info.idx]
  ELSE IF origin.kind \in {"root", "def"} THEN origin
  ELSE [kind |-> "none", idx |-> 0]

\* The input document once the object at place holds schema.
WriteBack(root, place, schema) ==
  IF place.kind = "root" THEN schema
  ELSE IF place.kind = "def" THEN [root EXCEPT !.defs[1][place.idx].node = schema]
  ELSE root

\* The steps of generateSqlDdl in the order the source takes them; each takes
\* what the steps before it computed.  root is the input document after the
\* resolution step, place where in it the schema is, steps the trace of the
\* steps taken.
DdlConvert(p, root, place, schema2, steps, primaryKeyFields, combinedRules, schema3) ==
  [result |-> Caught(convertSchemaToSql(schema3, p.tableName, p.databaseType,
                primaryKeyFields, p.lowercaseAllFields, p.quoteIdentifiers, p.sqlStatements,
                [NoResult EXCEPT !.steps = steps \o <<"convert">>,
                                 !.primaryKeyFields = primaryKeyFields,
                                 !.rules = combinedRules, !.resolved = schema2,
                                 !.schema = schema3])),
   root |-> WriteBack(root, place, schema3)]

DdlOverrides(p, root, place, schema2, steps, primaryKeyFields, combinedRules) ==
  DdlConvert(p, root, place, schema2, steps \o <<"overrides">>, primaryKeyFields,
             combinedRules, applyOverrides(schema2, combinedRules))

DdlPrimaryKey(p, root, place, schema2, steps) ==
  DdlOverrides(p, root, place, schema2, steps \o <<"primaryKey">>,
               PrimaryKeyFields(p.primaryKeyFields, p.autoDetectPrimaryKey,
                                p.lowercaseAllFields, Keys(schema2)),
               CombinedRules(p.overrideRulesText, p.overrideRules))

DdlTableName(p, root, place, schema2, steps, invalid) ==
  IF invalid # ""
    THEN [result |-> Thrown("NodeOperationError", "Invalid table name: " \o invalid, steps),
          root |-> WriteBack(root, place, schema2)]
  ELSE DdlPrimaryKey(p, root, place, schema2, steps)

DdlLowercased(p, root, place, schema2, steps) ==
  DdlTableName(p, root, place, schema2, steps \o <<"validateTableName">>,
               validateTableName(p.tableName))

DdlLowercase(p, root, place, schema1, defs) ==
  IF ~p.lowercaseAllFields THEN DdlLowercased(p, root, place, schema1, <<"resolve">>)
  ELSE IF LowercaseOverflows(schema1, defs)
    THEN [result |-> Thrown("RangeError", "Maximum call stack size exceeded",
                            <<"resolve", "lowercase">>),
          root |-> root]
  ELSE DdlLowercased(p, root, place, lowercaseSchemaProperties(schema1),
                     <<"resolve", "lowercase">>)

DdlProperties(p, root, origin, schema, defs, info) ==
  IF info.where = "none"
    THEN [result |-> Thrown("NodeOperationError", NoPropertiesMessage, <<"resolve">>),
          root |-> root]
  ELSE DdlLowercase(p, root, PlaceOf(origin, info),
                    IF info.where = "def" THEN defs[info.idx].node ELSE schema, defs)

DdlResolved(p, root, e) ==
  IF e.hang
    THEN [result |-> [NoResult EXCEPT !.status = "hang", !.steps = <<"resolve">>],
          root |-> root]
  ELSE DdlProperties(p, e.root, e.origin, e.schema, RootDefinitions(e.root),
                     findSchemaProperties(e.schema, RootDefinitions(e.root)))

\* generateSqlDdl(context) on the first input item, p being the node parameters.
\* result is what the caller gets (the output item or the error thrown); root is
\* the input document after the call.
generateSqlDdl(input, p) ==
  IF Len(input) = 0
    THEN [result |-> Thrown("NodeOperationError",
                            "No input data provided. Please provide a JSON schema.", <<>>),
          root |-> Nd(<<>>, "")]
  ELSE DdlResolved(p, input[1], getEffectiveRootObjectSchema(input[1]))

(***************************************************************************)
(* Inputs of the SQL DDL operation: schema documents with at most MaxProps *)
(* properties, and node parameters.                                        *)
(***************************************************************************)
MaxProps == 2

Dialects == {"pg", "mysql2", "sqlite3", "mssql", "oracledb", "cockroachdb"}

NullableAnyOf == [Nd(<<>>, "") EXCEPT !.anyOf = <<"string", "null">>]

NullableOneOf == [Nd(<<>>, "") EXCEPT !.oneOf = <<"null", "integer">>]

DdlProps ==
  {Prop("id", Nd(Scalar("integer"), "")), Prop("id", Nd(Scalar("string"), "")),
   Prop("Id", Nd(Scalar("integer"), "")),
   Prop("name", Nd(Scalar("string"), "")), Prop("name", Nd(Union(<<"string", "null">>), "")),
   Prop("name", NullableAnyOf), Prop("name", NullableOneOf),
   Prop("tags", Nd(Scalar("array"), "")),
   Prop("createdAt", Nd(Scalar("integer"), "")), Prop("createdAt", Nd(Scalar("string"), "date-time"))}

NamesDistinct(l) == \A i, j \in 1..Len(l) : l[i].name = l[j].name => i = j

\* The property lists of at most n catalog entries with distinct names.
RECURSIVE PropLists(_, _)
PropLists(catalog, n) ==
  IF n = 0 THEN {<<>>}
  ELSE LET shorter == PropLists(catalog, n - 1)
       IN shorter \cup
          {m \in {Append(l, q) : l \in {k \in shorter : Len(k) = n - 1}, q \in catalog} :
             NamesDistinct(m)}

AllRequired(l) == <<[i \in 1..Len(l) |-> l[i].name]>>

\* The example of the README and of the spec's concrete scenarios.
ScenarioSchema ==
  [Obj(<<Prop("id", Nd(Scalar("integer"), "")), Prop("name", Nd(Scalar("string"), "")),
         Prop("tags", Nd(Scalar("array"), ""))>>) EXCEPT !.required = <<<<"id", "name">>>>]

\* Property names that need quoting: inner and outer spaces, upper case, and
\* every delimiter character of the six dialects.
QuotingSchema ==
  Obj(<<Prop("order id", Nd(Scalar("string"), "")), Prop(" Qty ", Nd(Scalar("integer"), "")),
        Prop("a\"b[c]d'e", Nd(Scalar("string"), ""))>>)

\* Each list once with no required array and once with every name required,
\* and an object schema without properties.
DdlSchemas ==
  {ScenarioSchema, QuotingSchema, Nd(Scalar("object"), "")} \cup
  {[Obj(l) EXCEPT !.required = IF all THEN AllRequired(l) ELSE <<>>] :
     l \in PropLists(DdlProps, MaxProps) \ {<<>>}, all \in BOOLEAN}

DefaultParams ==
  [databaseType |-> "pg", tableName |-> "items", lowercaseAllFields |-> FALSE,
   quoteIdentifiers |-> FALSE, autoDetectPrimaryKey |-> TRUE, primaryKeyFields |-> "",
   overrideRulesText |-> "", overrideRules |-> <<>>, sqlStatements |-> 1]


RuleTexts ==
  {"", "id->uuid", "*created*->string, createdAt->integer", "name->integer",
   "bogus, name->foo, Id->INT , *a*->text", "na*->json, *d->date"}

TableNames == {"items", "", "order items", "1items", "_t1"}

AdvancedRows ==
  {<<>>, <<[fieldName |-> " name ", matchType |-> "", newType |-> "Number"]>>,
   <<[fieldName |-> "", matchType |-> "exact", newType |-> "string"],
     [fieldName |-> "e", matchType |-> "partial", newType |-> "boolean"]>>}

\* Seven families of parameters: rules by dialect, naming by table name,
\* primary-key options with both kinds of rules, naming by dialect, a builder
\* that generates no statement, and keys and table names on cockroachdb.  sqlStatements is not a node parameter:
\* it is the number of statements the SQL builder returns for the table.
DdlParams ==
  {[DefaultParams EXCEPT !.databaseType = d, !.overrideRulesText = t] :
     d \in Dialects, t \in RuleTexts}
  \cup
  {[DefaultParams EXCEPT !.databaseType = d, !.tableName = n, !.quoteIdentifiers = q,
                         !.lowercaseAllFields = l] :
     d \in {"pg", "mssql"}, n \in TableNames, q \in BOOLEAN, l \in BOOLEAN}
  \cup
  {[DefaultParams EXCEPT !.autoDetectPrimaryKey = a, !.primaryKeyFields = k,
                         !.overrideRulesText = t, !.overrideRules = r] :
     a \in BOOLEAN, k \in {"", "name", " ID ,tags"}, t \in {"", "name->integer"},
     r \in AdvancedRows}
  \cup
  {[DefaultParams EXCEPT !.databaseType = d, !.quoteIdentifiers = q, !.lowercaseAllFields = l] :
     d \in Dialects, q \in BOOLEAN, l \in BOOLEAN}
  \cup
  {[DefaultParams EXCEPT !.databaseType = d, !.sqlStatements = 0] : d \in {"pg", "mssql"}}
  \cup
  {[DefaultParams EXCEPT !.databaseType = "cockroachdb", !.tableName = n,
                         !.quoteIdentifiers = q, !.primaryKeyFields = k] :
     n \in {"items", "order items"}, q \in BOOLEAN, k \in {"", "name", " ID ,tags"}}
  \cup
  {[DefaultParams EXCEPT !.lowercaseAllFields = TRUE, !.quoteIdentifiers = q,
                         !.primaryKeyFields = k] :
     q \in BOOLEAN, k \in {"name", " ID ,tags", "Order-Id"}}

(***************************************************************************)
(* The SQL DDL operation as a state machine: the node holds its input      *)
(* items; one execution runs generateSqlDdl to its end.                    *)
(***************************************************************************)
Init ==
  /\ items \in {<<s>> : s \in DdlSchemas} \cup {<<>>}
  /\ orig = items
  /\ params = DefaultParams
  /\ out = NoResult
  /\ pc = "ready"

\* The operation on the input items: its result is kept in out, and the input
\* document is left as the call left it.
Returned(p, r) ==
  /\ items' = IF Len(items) = 0 THEN items ELSE <<r.root>>
  /\ out' = r.result
  /\ params' = p

GenerateSqlDdl ==
  /\ pc = "ready"
  /\ \E p \in DdlParams : Returned(p, generateSqlDdl(items, p))
  /\ pc' = "done"
  /\ UNCHANGED orig

Next == GenerateSqlDdl

Spec == Init /\ [][Next]_vars

(***************************************************************************)
(* Properties of the SQL DDL operation.                                    *)
(***************************************************************************)
Done == pc = "done" /\ out.status = "ok"

\* The rule list the parameters stand for: text rules, then structured rules.
ParamRules == parseOverrideRules(params.overrideRulesText) \o AdvancedRules(params.overrideRules)

\* The indexes of the rules whose pattern matches a name.
Matching(rules, name) ==
  {k \in 1..Len(rules) : matchesFieldName(name, rules[k].fieldName, rules[k].matchType)}

Least(S) == CHOOSE k \in S : \A j \in S : k <= j

PropertyCount == Len(Properties(out.schema))

NameAt(i) == Properties(out.schema)[i].name

\* A property before and after the override pass.
BeforeAt(i) == Properties(out.resolved)[i].node

AfterAt(i) == Properties(out.schema)[i].node

\* C1: override rules are first-match-wins in list order, text rules before
\* structured rules: a field that some rule matches ends with the type of the
\* first such rule, and a field that no rule matches keeps its type.
C1_FirstMatchWins ==
  Done =>
    \A i \in 1..PropertyCount :
      LET hits == Matching(ParamRules, NameAt(i))
      IN IF hits = {} THEN AfterAt(i) = BeforeAt(i)
         ELSE AfterAt(i) = ApplyRule(BeforeAt(i), ParamRules[Least(hits)])

\* The example of C1: createdAt, matched by both rules, takes the first one's type.
C1_Witness ==
  /\ Done
  /\ params.overrideRulesText = "*created*->string, createdAt->integer"
  /\ \E i \in 1..PropertyCount :
       /\ NameAt(i) = "createdAt"
       /\ BeforeAt(i).type = Scalar("integer")
       /\ AfterAt(i).type = Scalar("string")

\* A schema allows null by a union type that contains null or by an anyOf /
\* oneOf alternative typed null.
AllowsNull(n) ==
  \/ n.type = Scalar("null")
  \/ (Len(n.type) > 0 /\ n.type[1] = "u" /\ \E k \in 2..Len(n.type) : n.type[k] = "null")
  \/ \E k \in 1..Len(n.anyOf) : n.anyOf[k] = "null"
  \/ \E k \in 1..Len(n.oneOf) : n.oneOf[k] = "null"

ListedRequired(i) == Has(RequiredOrEmpty(out.resolved), NameAt(i))

\* C2: a required property that allowed null before a rule rewrote its type
\* is still emitted nullable.
C2_NullabilityPreserved ==
  Done =>
    \A i \in 1..PropertyCount :
      (AllowsNull(BeforeAt(i)) /\ ListedRequired(i) /\ Matching(ParamRules, NameAt(i)) # {})
        => ~out.columns[i].notNull

\* C3: with no override, a column that is not a primary key is NOT NULL exactly
\* when its property is listed in required and its schema does not allow null.
C3_NotNullIffRequiredAndNotNullable ==
  (Done /\ ParamRules = <<>>) =>
    \A i \in 1..PropertyCount :
      ~out.columns[i].primary =>
        (out.columns[i].notNull <=> (ListedRequired(i) /\ ~AllowsNull(AfterAt(i))))

\* The example of C3: ["string","null"], listed in required, emitted nullable.
C3_Witness ==
  /\ Done
  /\ ParamRules = <<>>
  /\ \E i \in 1..PropertyCount :
       /\ AfterAt(i).type = Union(<<"string", "null">>)
       /\ ListedRequired(i)
       /\ ~out.columns[i].primary
       /\ ~out.columns[i].notNull

\* The positions of the properties named 'id' in any case, in the schema the
\* primary key is detected on.
IdIndexes == {i \in 1..PropertyCount : ToLowerCase(NameAt(i)) = "id"}

AutoDetected ==
  Done /\ params.autoDetectPrimaryKey /\ Trim(params.primaryKeyFields) = ""

\* C7: with no explicit list and auto-detect on, the primary key is exactly the
\* first property named 'id' in any case (none when there is no such property,
\* never more than one), and when that property is an integer its column is an
\* auto-increment primary key, whatever the dialect.
C7_AutoDetectedPrimaryKey ==
  AutoDetected =>
    /\ out.primaryKeyFields = IF IdIndexes = {} THEN <<>> ELSE <<NameAt(Least(IdIndexes))>>
    /\ Len(out.primaryKeyFields) <= 1
    /\ \A i \in 1..PropertyCount :
         /\ out.columns[i].primary <=> (IdIndexes # {} /\ i = Least(IdIndexes))
         /\ (out.columns[i].primary /\ AfterAt(i).type = Scalar("integer"))
              => out.columns[i].type = Call("increments")

\* The example of C7: {Id: integer, name: string} on a dialect other than pg.
C7_Witness ==
  /\ AutoDetected
  /\ params.databaseType = "oracledb"
  /\ PropertyCount = 2
  /\ NameAt(1) = "Id" /\ NameAt(2) = "name"
  /\ out.primaryKeyFields = <<"Id">>
  /\ out.columns[1].type = Call("increments") /\ out.columns[1].primary
  /\ ~out.columns[2].primary

\* C8: on mysql2 a primary-key property that the rule id->uuid turned from an
\* integer into a uuid is a char(36) column, not an auto-increment one, and
\* it still is the primary key.
C8_OverriddenKeyKeepsConstraint ==
  (Done /\ params.databaseType = "mysql2") =>
    \A i \in 1..PropertyCount :
      (/\ out.primaryKeyFields = <<NameAt(i)>>
       /\ BeforeAt(i).type = Scalar("integer")
       /\ AfterAt(i).type = Scalar("string") /\ AfterAt(i).format = "uuid")
      => /\ out.columns[i].type = SpecificType("char(36)")
         /\ out.columns[i].type.call # "increments"
         /\ out.columns[i].primary

C8_Witness ==
  /\ Done
  /\ params.databaseType = "mysql2"
  /\ params.overrideRulesText = "id->uuid"
  /\ out.primaryKeyFields = <<"id">>
  /\ \E i \in 1..PropertyCount :
       /\ NameAt(i) = "id"
       /\ BeforeAt(i).type = Scalar("integer")
       /\ out.columns[i].type = SpecificType("char(36)")
       /\ out.columns[i].primary

\* C9: on pg with auto-detect on there is one column per property, in the order
\* of the properties (those of the schema the table is built from, that is
\* after the Lowercase All Fields step, which merges keys that differ by case
\* only); for {id: integer, name: string, tags: array} with required [id, name]
\* and no rule, id is an auto-increment primary key (serial on pg), name is
\* string(255) NOT NULL (varchar(255)) and tags is jsonb without NOT NULL.
C9_PgColumnsOfScenario ==
  (AutoDetected /\ params.databaseType = "pg") =>
    /\ Len(out.columns) = PropertyCount
    /\ \A i \in 1..PropertyCount : out.columns[i].property = NameAt(i)
    /\ (orig = <<ScenarioSchema>> /\ ParamRules = <<>>) =>
         /\ Len(out.columns) = 3
         /\ out.columns[1].name = "id" /\ out.columns[1].type = Call("increments")
         /\ out.columns[1].primary
         /\ out.columns[2].name = "name" /\ out.columns[2].type = StringOf(255)
         /\ out.columns[2].notNull /\ ~out.columns[2].primary
         /\ out.columns[3].name = "tags" /\ out.columns[3].type = Call("jsonb")
         /\ ~out.columns[3].notNull /\ ~out.columns[3].primary

C9_Witness ==
  /\ AutoDetected
  /\ params.databaseType = "pg"
  /\ params.tableName = "items"
  /\ orig = <<ScenarioSchema>>
  /\ ParamRules = <<>>
  /\ Len(out.columns) = 3
  /\ out.columns[3].type = Call("jsonb")

\* A table name the naming rule rejects: empty, or not ^[A-Za-z_][A-Za-z0-9_]*$.
RejectedTableName(n) == Len(n) = 0 \/ ~IsPlainIdentifier(n)

NamingError ==
  out.status = "error" /\ StartsWith(out.message, "Invalid table name") /\ out.columns = <<>>

\* C10: the table name is validated exactly when identifier quoting is off:
\* without quoting a rejected name ends the operation with a naming error and
\* no SQL; with quoting there is no naming error and the raw name is emitted
\* as it is inside the dialect's quotes.
C10_ValidationOnlyWithoutQuoting ==
  (pc = "done" /\ Len(orig) > 0) =>
    /\ (~params.quoteIdentifiers /\ RejectedTableName(params.tableName)) => NamingError
    /\ params.quoteIdentifiers =>
         /\ out.status = "ok"
         /\ out.tableName = params.tableName
         /\ out.tableIdent = WrapIdentifier(params.databaseType, params.tableName)

(***************************************************************************)
(* applyOverrides on schema trees: nested objects, arrays of objects and   *)
(* definitions.                                                            *)
\* The property names of the input document, in declaration order.
InputCount == Len(Properties(orig[1]))

InputNameAt(i) == Properties(orig[1])[i].name

\* An execution that generated SQL with identifier quoting enabled, one column
\* per property of the input document.
Quoted == Done /\ params.quoteIdentifiers /\ Len(out.columns) = InputCount

OpenOf(databaseType) ==
  IF databaseType \in {"mysql2", "sqlite3"} THEN Backtick
  ELSE IF databaseType = "mssql" THEN "[" ELSE "\""

CloseOf(databaseType) ==
  IF databaseType \in {"mysql2", "sqlite3"} THEN Backtick
  ELSE IF databaseType = "mssql" THEN "]" ELSE "\""

\* s with every character of cs written twice.
RECURSIVE Doubled(_, _)
Doubled(s, cs) ==
  IF Len(s) = 0 THEN ""
  ELSE (IF Char(s, 1) \in cs THEN Char(s, 1) \o Char(s, 1) ELSE Char(s, 1))
       \o Doubled(Tail(s), cs)

\* A name inside the delimiters of the dialect, the delimiters doubled inside.
Delimited(databaseType, name) ==
  OpenOf(databaseType)
  \o Doubled(name, {OpenOf(databaseType), CloseOf(databaseType)})
  \o CloseOf(databaseType)

\* C11 as stated: with identifier quoting enabled every column is emitted as
\* its property name, trimmed and nothing else, inside the dialect's delimiters
\* with the delimiters doubled.
C11_QuotedNameOnlyTrimmed ==
  Quoted =>
    \A i \in 1..InputCount :
      out.columns[i].identifier = Delimited(params.databaseType, Trim(InputNameAt(i)))

\* C11 amended: with identifier quoting enabled every column is emitted as its
\* property name, trimmed, and lowercased when Lowercase All Fields is on,
\* inside the dialect's delimiters (double quotes for pg, cockroachdb and
\* oracledb, backticks for mysql2 and sqlite3, square brackets for mssql) with
\* the delimiters doubled; without lowercasing it is the trimmed name only.
C11_QuotedNameTrimmedAndFolded ==
  Quoted =>
    \A i \in 1..InputCount :
      out.columns[i].identifier =
        Delimited(params.databaseType,
                  IF params.lowercaseAllFields THEN ToLowerCase(Trim(InputNameAt(i)))
                  ELSE Trim(InputNameAt(i)))

\* The example of C11: mssql emits the column named "order id" as [order id],
\* trims " Qty " and doubles the brackets of the third name.
C11_Witness ==
  /\ Quoted
  /\ params.databaseType = "mssql"
  /\ ~params.lowercaseAllFields
  /\ orig = <<QuotingSchema>>
  /\ out.columns[1].identifier = "[order id]"
  /\ out.columns[2].identifier = "[Qty]"
  /\ out.columns[3].identifier = "[a\"b[[c]]d'e]"

(***************************************************************************)
Leaf(t) == Nd(Scalar(t), "")

ArrayOf(itemNode) == [Nd(Scalar("array"), "") EXCEPT !.items = <<itemNode>>]

TreeProps ==
  {Prop("id", Leaf("integer")),
   Prop("createdAt", Leaf("string")),
   Prop("createdAt", Nd(Scalar("string"), "date-time")),
   Prop("meta", Obj(<<Prop("id", Leaf("integer")), Prop("note", Leaf("string"))>>)),
   Prop("meta", [Obj(<<Prop("createdAt", Leaf("integer"))>>)
                   EXCEPT !.type = Union(<<"object", "null">>)]),
   Prop("tags", ArrayOf(Obj(<<Prop("id", Leaf("string"))>>))),
   Prop("tags", ArrayOf(Leaf("string"))),
   Prop("note", [Leaf("string") EXCEPT !.props = <<<<Prop("id", Leaf("integer"))>>>>])}

TreeDefinitions ==
  {<<>>,
   <<<<Prop("Other", Obj(<<Prop("id", Leaf("integer")), Prop("name", Leaf("string"))>>))>>>>,
   <<<<Prop("Meta", Obj(<<Prop("note", Leaf("integer"))>>)),
       Prop("Tag", Obj(<<Prop("note", Leaf("string")), Prop("tags", Leaf("array"))>>))>>>>}

OverrideSchemas ==
  {[Obj(l) EXCEPT !.defs = d] : l \in PropLists(TreeProps, MaxProps) \ {<<>>}, d \in TreeDefinitions}

OverrideTexts ==
  {"id->uuid", "*created*->string, createdAt->integer", "meta->string, id->number",
   "note->object, id->text", "tags->json, *d->boolean", "n*->integer, *a*->date, bogus"}

InitOverride ==
  /\ items \in {<<s>> : s \in OverrideSchemas}
  /\ orig = items
  /\ params = DefaultParams
  /\ out = NoResult
  /\ pc = "ready"

\* applyOverrides(schema, combinedRules) on the input schema itself.
ApplyOverrides ==
  /\ pc = "ready"
  /\ \E t \in OverrideTexts, r \in AdvancedRows :
       LET rules == CombinedRules(t, r)
           after == applyOverrides(items[1], rules)
       IN /\ items' = <<after>>
          /\ params' = [DefaultParams EXCEPT !.overrideRulesText = t, !.overrideRules = r]
          /\ out' = [NoResult EXCEPT !.status = "ok", !.rules = rules,
                                     !.resolved = items[1], !.schema = after]
  /\ pc' = "done"
  /\ UNCHANGED orig

\* applyOverrides(schema, combinedRules) once more, on the schema the first
\* call left: resolved keeps that schema, schema is the result.
ApplyOverridesAgain ==
  /\ pc = "done"
  /\ items' = <<applyOverrides(items[1], out.rules)>>
  /\ out' = [out EXCEPT !.resolved = items[1], !.schema = applyOverrides(items[1], out.rules)]
  /\ pc' = "again"
  /\ UNCHANGED <<orig, params>>

NextOverride == ApplyOverrides \/ ApplyOverridesAgain

SpecOverride == InitOverride /\ [][NextOverride]_vars

\* Every property of a tree with its node before and after the override pass:
\* the properties of the schema, of each property (recursively) and of array items.
RECURSIVE FieldPairs(_, _)
FieldPairs(before, after) ==
  IF ~HasProperties(before) THEN {}
  ELSE UNION {
         LET b == Properties(before)[i].node
             a == Properties(after)[i].node
         IN {[name |-> Properties(before)[i].name, before |-> b, after |-> a]}
            \cup FieldPairs(b, a)
            \cup (IF b.items # <<>> THEN FieldPairs(b.items[1], a.items[1]) ELSE {})
         : i \in 1..Len(Properties(before))}

AllFieldPairs(before, after) ==
  FieldPairs(before, after)
  \cup UNION {FieldPairs(RootDefinitions(before)[i].node, RootDefinitions(after)[i].node)
              : i \in 1..Len(RootDefinitions(before))}

\* C4: overrides reach every matching field of the tree: under the root's
\* properties, under array items and under every definitions entry, a property
\* whose name matches a rule has the type and format of the first such rule.
C4_OverridesReachEveryField ==
  Done =>
    \A f \in AllFieldPairs(out.resolved, out.schema) :
      LET hits == Matching(out.rules, f.name)
          want == ApplyRule(f.before, out.rules[Least(hits)])
      IN hits # {} => (f.after.type = want.type /\ f.after.format = want.format)

(***************************************************************************)
(* Required fields of the Create Schema operation.                         *)
(***************************************************************************)
MatchesFolded(fieldToMatch, propToMatch, useSubstring) ==
  IF useSubstring THEN Includes(propToMatch, fieldToMatch) ELSE fieldToMatch = propToMatch

matchesField(requiredField, propertyName, useSubstring, caseInsensitive) ==
  IF caseInsensitive
  THEN MatchesFolded(ToLowerCase(requiredField), ToLowerCase(propertyName), useSubstring)
  ELSE MatchesFolded(requiredField, propertyName, useSubstring)

\* The two loops without the includes test: a property is pushed once for
\* every supplied name it matches.
RECURSIVE MatchLoopRepeating(_, _, _, _, _, _, _)
MatchLoopRepeating(requiredFieldNames, propertyNames, useSubstring, caseInsensitive, f, n, matched) ==
  IF f > Len(requiredFieldNames) THEN matched
  ELSE IF n > Len(propertyNames)
    THEN MatchLoopRepeating(requiredFieldNames, propertyNames, useSubstring, caseInsensitive,
                            f + 1, 1, matched)
  ELSE MatchLoopRepeating(requiredFieldNames, propertyNames, useSubstring, caseInsensitive, f,
                          n + 1,
                          IF matchesField(requiredFieldNames[f], propertyNames[n], useSubstring,
                                          caseInsensitive)
                          THEN Append(matched, propertyNames[n]) ELSE matched)

\* The two nested loops of setRequiredFields, from required field f and
\* property n on: matchedProperties, each name once, in the order it matched.
RECURSIVE MatchLoop(_, _, _, _, _, _, _)
MatchLoop(requiredFieldNames, propertyNames, useSubstring, caseInsensitive, f, n, matched) ==
  IF f > Len(requiredFieldNames) THEN matched
  ELSE IF n > Len(propertyNames)
    THEN MatchLoop(requiredFieldNames, propertyNames, useSubstring, caseInsensitive, f + 1, 1,
                   matched)
  ELSE MatchLoop(requiredFieldNames, propertyNames, useSubstring, caseInsensitive, f, n + 1,
                 IF /\ matchesField(requiredFieldNames[f], propertyNames[n], useSubstring,
                                    caseInsensitive)
                    /\ ~Has(matched, propertyNames[n])
                 THEN Append(matched, propertyNames[n]) ELSE matched)

\* set.add(name) for each name of seq from i on, kept in insertion order.
RECURSIVE AddAll(_, _, _)
AddAll(set, seq, i) ==
  IF i > Len(seq) THEN set
  ELSE AddAll(IF Has(set, seq[i]) THEN set ELSE Append(set, seq[i]), seq, i + 1)

\* A required list that takes the matched names only, whatever the merge flag.
RequiredOfReplacing(schema, matchedProperties, mergeWithExisting) ==
  IF Len(matchedProperties) = 0 THEN schema.required ELSE <<matchedProperties>>

\* A required list that is assigned whether or not anything matched.
RequiredOfUnguarded(schema, matchedProperties, mergeWithExisting) ==
  IF mergeWithExisting /\ schema.required # <<>> /\ Len(schema.required[1]) > 0
  THEN <<AddAll(AddAll(<<>>, schema.required[1], 1), matchedProperties, 1)>>
  ELSE <<matchedProperties>>

\* The required array of a schema after the properties block of setRequiredFields.
RequiredOf(schema, matchedProperties, mergeWithExisting) ==
  IF Len(matchedProperties) = 0 THEN schema.required
  ELSE IF mergeWithExisting /\ schema.required # <<>> /\ Len(schema.required[1]) > 0
    THEN <<AddAll(AddAll(<<>>, schema.required[1], 1), matchedProperties, 1)>>
  ELSE <<matchedProperties>>

SetOwnRequired(schema, requiredFieldNames, useSubstring, caseInsensitive, mergeWithExisting) ==
  IF ~HasProperties(schema) THEN schema
  ELSE [schema EXCEPT !.required =
          RequiredOf(schema,
                     MatchLoop(requiredFieldNames, Keys(schema), useSubstring, caseInsensitive,
                               1, 1, <<>>),
                     mergeWithExisting)]

RECURSIVE setRequiredFields(_, _, _, _, _)
RECURSIVE SetDefinitionsRequired(_, _, _, _, _)
\* The loop of setRequiredFields over the entries of schema.definitions.
SetDefinitionsRequired(schema, requiredFieldNames, useSubstring, caseInsensitive, mergeWithExisting) ==
  IF schema.defs = <<>> THEN schema
  ELSE [schema EXCEPT !.defs =
          <<[i \in 1..Len(schema.defs[1]) |->
               Prop(schema.defs[1][i].name,
                    setRequiredFields(schema.defs[1][i].node, requiredFieldNames, useSubstring,
                                      caseInsensitive, mergeWithExisting))]>>]

setRequiredFields(schema, requiredFieldNames, useSubstring, caseInsensitive, mergeWithExisting) ==
  SetDefinitionsRequired(
    SetOwnRequired(schema, requiredFieldNames, useSubstring, caseInsensitive, mergeWithExisting),
    requiredFieldNames, useSubstring, caseInsensitive, mergeWithExisting)

RECURSIVE clearAllRequiredFields(_)
RECURSIVE ClearDefinitionsRequired(_)
ClearDefinitionsRequired(schema) ==
  IF schema.defs = <<>> THEN schema
  ELSE [schema EXCEPT !.defs =
          <<[i \in 1..Len(schema.defs[1]) |->
               Prop(schema.defs[1][i].name, clearAllRequiredFields(schema.defs[1][i].node))]>>]

clearAllRequiredFields(schema) ==
  ClearDefinitionsRequired(IF schema.required # <<>> THEN [schema EXCEPT !.required = <<<<>>>>]
                           ELSE schema)

\* The required-fields block of createSchema on the inferred schema; o are the
\* requiredFieldOptions.
Cleared(schema, o) ==
  IF o.overrideInferredRequired THEN clearAllRequiredFields(schema) ELSE schema

RequiredFieldsStep(schema, o) ==
  IF Trim(o.requiredFields) = "" THEN Cleared(schema, o)
  ELSE setRequiredFields(Cleared(schema, o), SplitList(o.requiredFields),
                         o.useSubstringMatching, o.caseInsensitiveMatching,
                         ~o.overrideInferredRequired)

\* Inferred schemas: at most MaxProps properties, a required array that is
\* absent, empty, the last property, or a stale name and the first property;
\* with or without definitions.
RequiredProps ==
  {Prop("id", Leaf("integer")), Prop("Id", Leaf("string")), Prop("name", Leaf("string")),
   Prop("createdAt", Leaf("string"))}

RequiredChoices(l) ==
  {<<>>, <<<<>>>>, <<<<l[Len(l)].name>>>>, <<<<"legacy", l[1].name>>>>}

RequiredDefinitions ==
  {<<>>,
   <<<<Prop("Item", [Obj(<<Prop("id", Leaf("integer")), Prop("note", Leaf("string"))>>)
                       EXCEPT !.required = <<<<"note">>>>]),
       Prop("Bare", [Nd(Scalar("object"), "") EXCEPT !.required = <<<<"name">>>>])>>>>}

\* Schemas with an object schema in place under a property and under items.
NestedRequiredSchemas ==
  {[Obj(<<Prop("id", Leaf("integer")),
          Prop("address", [Obj(<<Prop("street", Leaf("string"))>>)
                             EXCEPT !.required = <<<<"street">>>>])>>)
      EXCEPT !.required = <<<<"id">>>>],
   [Obj(<<Prop("rows", ArrayOf([Obj(<<Prop("name", Leaf("string"))>>)
                                  EXCEPT !.required = <<<<"name">>>>]))>>)
      EXCEPT !.required = <<<<"rows">>>>]}

RequiredSchemas ==
  NestedRequiredSchemas
  \cup UNION {{[Obj(l) EXCEPT !.required = r, !.defs = d] :
                 r \in RequiredChoices(l), d \in RequiredDefinitions} :
              l \in PropLists(RequiredProps, MaxProps) \ {<<>>}}

RequiredTexts == {"id", "ID, name", "a", " createdAt ,zzz"}

RequiredNameLists == {<<>>, <<"id">>, <<"name", "ID">>, <<"e", "d">>}

NoRequiredCall ==
  [op |-> "none", requiredFieldNames |-> <<>>, useSubstring |-> FALSE,
   caseInsensitive |-> FALSE, mergeWithExisting |-> FALSE, overrideInferredRequired |-> FALSE]

InitRequired ==
  /\ items \in {<<s>> : s \in RequiredSchemas}
  /\ orig = items
  /\ params = NoRequiredCall
  /\ out = NoResult
  /\ pc = "ready"

RequiredDone(after) ==
  /\ items' = <<after>>
  /\ out' = [NoResult EXCEPT !.status = "ok", !.resolved = items[1], !.schema = after]
  /\ pc' = "done"
  /\ UNCHANGED orig

\* setRequiredFields(schema, names, useSubstring, caseInsensitive, mergeWithExisting)
SetRequiredFields ==
  /\ pc = "ready"
  /\ \E names \in RequiredNameLists, sub \in BOOLEAN, ci \in BOOLEAN, merge \in BOOLEAN :
       /\ params' = [NoRequiredCall EXCEPT !.op = "setRequiredFields",
                       !.requiredFieldNames = names, !.useSubstring = sub,
                       !.caseInsensitive = ci, !.mergeWithExisting = merge]
       /\ RequiredDone(setRequiredFields(items[1], names, sub, ci, merge))

\* clearAllRequiredFields(schema)
ClearAllRequiredFields ==
  /\ pc = "ready"
  /\ params' = [NoRequiredCall EXCEPT !.op = "clearAllRequiredFields"]
  /\ RequiredDone(clearAllRequiredFields(items[1]))

\* The required-fields block of createSchema under the requiredFieldOptions.
RequiredFieldOptions ==
  /\ pc = "ready"
  /\ \E text \in RequiredTexts \cup {""}, sub \in BOOLEAN, ci \in BOOLEAN, override \in BOOLEAN :
       /\ params' = [op |-> "createSchema", requiredFieldNames |-> SplitList(text),
                     useSubstring |-> sub, caseInsensitive |-> ci,
                     mergeWithExisting |-> ~override, overrideInferredRequired |-> override]
       /\ RequiredDone(RequiredFieldsStep(items[1],
                         [requiredFields |-> text, useSubstringMatching |-> sub,
                          caseInsensitiveMatching |-> ci, overrideInferredRequired |-> override]))

NextRequired == SetRequiredFields \/ ClearAllRequiredFields \/ RequiredFieldOptions

SpecRequired == InitRequired /\ [][NextRequired]_vars

\* The schema nodes setRequiredFields visits, before and after: the root and
\* every entry of definitions.
NodePairs(before, after) ==
  {<<before, after>>}
  \cup {<<RootDefinitions(before)[i].node, RootDefinitions(after)[i].node>> :
          i \in 1..Len(RootDefinitions(before))}

Merging ==
  /\ pc = "done"
  /\ params.op \in {"setRequiredFields", "createSchema"}
  /\ params.mergeWithExisting

\* C5: setRequiredFields with mergeWithExisting = true never removes a name:
\* in the root and in every definitions entry, each name that was in the
\* required array before the call is in it after the call.
C5_MergeNeverRemoves ==
  Merging =>
    \A pr \in NodePairs(out.resolved, out.schema) :
      \A k \in 1..Len(RequiredOrEmpty(pr[1])) :
        Has(RequiredOrEmpty(pr[2]), RequiredOrEmpty(pr[1])[k])

\* A merge that adds to a required array that was not empty: [name] and the
\* stale name of a definition both stay, id is added.
C5_Witness ==
  /\ Merging
  /\ params.op = "setRequiredFields"
  /\ RequiredOrEmpty(out.resolved) = <<"name">>
  /\ RequiredOrEmpty(out.schema) = <<"name", "id">>
  /\ Len(RootDefinitions(out.schema)) = 2
  /\ RequiredOrEmpty(RootDefinitions(out.schema)[1].node) = <<"note", "id">>
  /\ RequiredOrEmpty(RootDefinitions(out.schema)[2].node) = <<"name">>

(***************************************************************************)
(* getEffectiveRootObjectSchema on documents with references.              *)
(***************************************************************************)
RefTo(name) == [Nd(<<>>, "") EXCEPT !.ref = "#/definitions/" \o name]

WithRequired(node, names) == [node EXCEPT !.required = <<names>>]

\* What the Root definition of a document may be.
RootChoices ==
  {WithRequired(Obj(<<Prop("id", Leaf("integer")), Prop("name", Leaf("string"))>>), <<"id">>),
   Obj(<<Prop("id", Leaf("integer")), Prop("name", Leaf("string"))>>),
   WithRequired(Obj(<<Prop("data", WithRequired(Obj(<<Prop("x", Leaf("integer")),
                                                      Prop("y", Leaf("string"))>>), <<"x">>))>>),
                <<"data">>),
   Obj(<<Prop("data", Obj(<<Prop("x", Leaf("integer"))>>))>>),
   WithRequired(Obj(<<Prop("data", RefTo("Item"))>>), <<"data">>),
   Obj(<<Prop("data", RefTo("Loop"))>>),
   Obj(<<Prop("only", Leaf("string"))>>),
   [Nd(<<>>, "") EXCEPT !.props = <<<<Prop("id", Leaf("integer")), Prop("tags", Leaf("array"))>>>>],
   RefTo("Item")}

\* The definitions next to Root.
OtherDefinitions ==
  {<<>>,
   <<Prop("Item", WithRequired(Obj(<<Prop("x", Leaf("integer"))>>), <<"x">>))>>,
   <<Prop("Item", Leaf("string"))>>,
   <<Prop("Item", RefTo("Leaf")), Prop("Leaf", Obj(<<Prop("z", Leaf("boolean"))>>))>>,
   <<Prop("Loop", RefTo("Loop"))>>,
   <<Prop("Loop", RefTo("Item")), Prop("Item", RefTo("Loop"))>>}

DefinitionLists ==
  {<<Prop("Root", r)>> \o o : r \in RootChoices, o \in OtherDefinitions}
  \cup {o \o <<Prop("Root", r)>> : r \in RootChoices, o \in OtherDefinitions}

\* Documents whose root is a reference to Root, is Root itself, or has no
\* properties of its own.
ResolveDocs ==
  {[RefTo("Root") EXCEPT !.defs = <<d>>] : d \in DefinitionLists}
  \cup {[r EXCEPT !.defs = <<o>>] : r \in RootChoices, o \in OtherDefinitions \ {<<>>}}
  \cup {[Nd(Scalar("object"), "") EXCEPT !.defs = <<d>>] : d \in DefinitionLists}
  \cup RootChoices

InitResolve ==
  /\ items \in {<<s>> : s \in ResolveDocs}
  /\ orig = items
  /\ params = DefaultParams
  /\ out = NoResult
  /\ pc = "ready"

Resolved(e) ==
  /\ items' = <<e.root>>
  /\ out' = [NoResult EXCEPT !.status = IF e.hang THEN "hang" ELSE "ok", !.steps = <<"resolve">>,
                             !.resolved = items[1], !.schema = e.schema]

\* getEffectiveRootObjectSchema(root) on the input document.
GetEffectiveRootObjectSchema ==
  /\ pc = "ready"
  /\ Resolved(getEffectiveRootObjectSchema(items[1]))
  /\ pc' = "done"
  /\ UNCHANGED <<orig, params>>

NextResolve == GetEffectiveRootObjectSchema

SpecResolve == InitResolve /\ [][NextResolve]_vars

\* The definition a document names Root (in the document as the call left it).
RootIndex == IndexOfName(RootDefinitions(items[1]), "Root")

RootDefinition == RootDefinitions(items[1])[RootIndex].node

\* The document's root is {$ref: "#/definitions/Root"} and Root has properties.
RefRootWithProperties ==
  /\ Len(orig) = 1
  /\ orig[1].ref = "#/definitions/Root"
  /\ RootIndex # 0
  /\ HasProperties(RootDefinition)

\* The schema a property stands for: the definition at the end of its chain of
\* "#/definitions/<name>" references, the property itself when it has no $ref.
RECURSIVE RefTarget(_, _, _)
RefTarget(node, defs, fuel) ==
  IF node.ref = "" \/ fuel = 0 THEN node
  ELSE IF ~StartsWith(node.ref, "#/definitions/") THEN node
  ELSE IF IndexOfName(defs, SubSeq(node.ref, 15, Len(node.ref))) = 0 THEN node
  ELSE RefTarget(defs[IndexOfName(defs, SubSeq(node.ref, 15, Len(node.ref)))].node, defs,
                 fuel - 1)

OnlyPropertyTarget ==
  RefTarget(Properties(RootDefinition)[1].node, RootDefinitions(items[1]),
            Len(RootDefinitions(items[1])))

\* Root is a wrapper: one property, which stands for a schema with properties.
RootIsWrapper ==
  Len(Properties(RootDefinition)) = 1 /\ HasProperties(OnlyPropertyTarget)

C12_DereferenceTerminates == pc = "done" => out.status = "ok"

(***************************************************************************)
(* convertSchemaToSql step by step: the handle is opened, the table is     *)
(* built inside the try block, and the finally block runs before the call  *)
(* returns the SQL or raises.                                              *)
(***************************************************************************)
\* Schemas with and without properties.
ConvertSchemas == DdlSchemas \cup {Obj(<<>>)}

ConvertParams ==
  {[DefaultParams EXCEPT !.databaseType = d, !.quoteIdentifiers = q, !.sqlStatements = n] :
     d \in {"pg", "mssql"}, q \in BOOLEAN, n \in {0, 1}}

InitConvert ==
  /\ items \in {<<s>> : s \in ConvertSchemas}
  /\ orig = items
  /\ params = DefaultParams
  /\ out = NoResult
  /\ pc = "ready"

\* const knexInstance = knex(knexConfig)
OpenHandle ==
  /\ pc = "ready"
  /\ \E p \in ConvertParams : params' = p
  /\ out' = OpenKnex(out)
  /\ pc' = "opened"
  /\ UNCHANGED <<items, orig>>

\* try { createTable(...); toSQL(); ... }
BuildTable ==
  /\ pc = "opened"
  /\ out' = BuildSql(items[1], params.tableName, params.databaseType, <<>>,
                     params.lowercaseAllFields, params.quoteIdentifiers,
                     params.sqlStatements, out)
  /\ pc' = "built"
  /\ UNCHANGED <<items, orig, params>>

\* finally { void knexInstance.destroy(); }, then the return or the throw.
ReleaseHandle ==
  /\ pc = "built"
  /\ out' = DestroyKnex(out)
  /\ pc' = "returned"
  /\ UNCHANGED <<items, orig, params>>

NextConvert == OpenHandle \/ BuildTable \/ ReleaseHandle

SpecConvert == InitConvert /\ [][NextConvert]_vars

\* C13: the SQL-builder handle is released on every exit path: when
\* convertSchemaToSql has returned the SQL or raised (no properties, no
\* statement generated), the handle it opened has been destroyed, and it is
\* never destroyed before the try block is left.
C13_HandleReleased ==
  /\ (pc = "returned" /\ out.knexCreated) => out.knexDestroyed
  /\ pc \in {"opened", "built"} => (out.knexCreated /\ ~out.knexDestroyed)

\* The exits of C13 that raise, with the handle released.
C13_Witness ==
  /\ pc = "returned"
  /\ out.status = "error"
  /\ out.message = "Failed to generate SQL: No queries generated"
  /\ out.knexCreated /\ out.knexDestroyed

(***************************************************************************)
(* Two executions over the same input item: the item the second execution  *)
(* reads is the object the first one was given.                            *)
(***************************************************************************)
RepeatParams ==
  {DefaultParams, [DefaultParams EXCEPT !.overrideRulesText = "name->integer"],
   [DefaultParams EXCEPT !.lowercaseAllFields = TRUE],
   [DefaultParams EXCEPT !.tableName = "order items", !.lowercaseAllFields = TRUE]}

InitRepeat ==
  /\ items \in {<<s>> : s \in DdlSchemas}
  /\ orig = items
  /\ params = DefaultParams
  /\ out = NoResult
  /\ pc = "ready"

FirstExecution ==
  /\ pc = "ready"
  /\ \E p \in RepeatParams : Returned(p, generateSqlDdl(items, p))
  /\ pc' = "once"
  /\ UNCHANGED orig

SecondExecution ==
  /\ pc = "once"
  /\ \E p \in RepeatParams : Returned(p, generateSqlDdl(items, p))
  /\ pc' = "twice"
  /\ UNCHANGED orig

NextRepeat == FirstExecution \/ SecondExecution

SpecRepeat == InitRepeat /\ [][NextRepeat]_vars

\* What the caller sees of an execution: the statement (table and columns) or
\* the error.
Outcome(result) ==
  [status |-> result.status, message |-> result.message, tableIdent |-> result.tableIdent,
   columns |-> result.columns]

\* C14: executions are independent: what the second execution produces for the
\* input schema and its options is what a single execution produces for them,
\* whatever the options of the execution that ran before it on the same item.
C14_ExecutionsIndependent ==
  pc = "twice" => Outcome(out) = Outcome(generateSqlDdl(orig, params).result)

\* C15: every fatal failure of generateSqlDdl (no input, no usable property,
\* invalid table name, no statement generated) reaches the caller as an error
\* whose message starts with "Failed to generate SQL DDL: " followed by the
\* cause.
C15_FatalErrorsPrefixed ==
  (pc = "done" /\ out.status = "error") =>
    /\ out.errorType = "NodeOperationError"
    /\ StartsWith(out.message, "Failed to generate SQL DDL: ")
    /\ Len(out.message) > Len("Failed to generate SQL DDL: ")

(***************************************************************************)
(* parseOverrideRules on rule texts made of at most MaxTokens tokens.      *)
(***************************************************************************)
MaxTokens == 2

RuleTokens ==
  {" Id -> INT ", "bogus", "name->foo", "*created*->Timestamp", "na*->str", "*d->BOOL",
   "->string", "id->constructor"}

RECURSIVE TokenLists(_)
TokenLists(n) ==
  IF n = 0 THEN {<<>>}
  ELSE TokenLists(n - 1) \cup
       {Append(l, t) : l \in {k \in TokenLists(n - 1) : Len(k) = n - 1}, t \in RuleTokens}

\* The text a user types for a list of tokens.
RECURSIVE JoinTokens(_)
JoinTokens(tokens) ==
  IF Len(tokens) = 0 THEN ""
  ELSE IF Len(tokens) = 1 THEN tokens[1]
  ELSE tokens[1] \o "," \o JoinTokens(Tail(tokens))

InitParse ==
  /\ orig \in TokenLists(MaxTokens)
  /\ items = <<>>
  /\ params = [DefaultParams EXCEPT !.overrideRulesText = JoinTokens(orig)]
  /\ out = NoResult
  /\ pc = "ready"

\* parseOverrideRules(overrideRulesText)
ParseOverrideRules ==
  /\ pc = "ready"
  /\ out' = [NoResult EXCEPT !.status = "ok",
                             !.rules = parseOverrideRules(params.overrideRulesText)]
  /\ pc' = "done"
  /\ UNCHANGED <<items, orig, params>>

NextParse == ParseOverrideRules

SpecParse == InitParse /\ [][NextParse]_vars

\* The rule a token stands for by the rule syntax: the tokens with an arrow, a
\* pattern and a recognised type, alias and case folded.
ExpectedRule(token) ==
  CASE token = " Id -> INT " -> <<Rule("Id", "exact", "integer")>>
    [] token = "*created*->Timestamp" -> <<Rule("created", "partial", "date-time")>>
    [] token = "na*->str" -> <<Rule("na", "prefix", "string")>>
    [] token = "*d->BOOL" -> <<Rule("d", "suffix", "boolean")>>
    [] OTHER -> <<>>

RECURSIVE ExpectedRules(_)
ExpectedRules(tokens) ==
  IF Len(tokens) = 0 THEN <<>> ELSE ExpectedRule(Head(tokens)) \o ExpectedRules(Tail(tokens))

\* C16: rule parsing is permissive: parseOverrideRules returns exactly the
\* rules of the well-formed tokens (an arrow, a non-empty pattern, a recognised
\* type), in input order, and drops every other token as a whole.
C16_OnlyWellFormedTokens == pc = "done" => out.rules = ExpectedRules(orig)

\* C17: cockroachdb behaves as pg: an execution for dialect cockroachdb ends as
\* the execution of the same input and options for dialect pg does: the same
\* column types, constraints and quoted identifiers, or the same error.
C17_CockroachAsPg ==
  (pc = "done" /\ params.databaseType = "cockroachdb") =>
    Outcome(out) = Outcome(generateSqlDdl(orig, [params EXCEPT !.databaseType = "pg"]).result)

\* The case of C17 where the dialects of the type table differ most: quoted
\* names, a JSON column and a key on cockroachdb.
C17_Witness ==
  /\ Done
  /\ params.databaseType = "cockroachdb"
  /\ params.quoteIdentifiers
  /\ params.primaryKeyFields = " ID ,tags"
  /\ \E i \in 1..Len(out.columns) :
       /\ out.columns[i].type = Call("jsonb")
       /\ out.columns[i].primary
       /\ out.columns[i].identifier = "\"tags\""

(***************************************************************************)
(* The output step of createSchema: Minimise Output Size and Include       *)
(* Definitions on the schema that inference, required fields and overrides *)
(* left.                                                                   *)
(***************************************************************************)
\* typeof obj.$ref === 'string' && obj.$ref.startsWith('#/definitions/')
IsDefinitionsRef(node) == StartsWith(node.ref, "#/definitions/")

\* A search that looks at the node and not below it.
hasAnyRefShallow(node) == IsDefinitionsRef(node)

\* hasAnyRef: the node or a value below it (definitions included) is a
\* reference into #/definitions.
RECURSIVE hasAnyRef(_)
hasAnyRef(node) ==
  \/ IsDefinitionsRef(node)
  \/ (node.props # <<>> /\ \E i \in 1..Len(node.props[1]) : hasAnyRef(node.props[1][i].node))
  \/ (node.items # <<>> /\ hasAnyRef(node.items[1]))
  \/ (node.defs # <<>> /\ \E i \in 1..Len(node.defs[1]) : hasAnyRef(node.defs[1][i].node))

\* { $schema, ...rootDef }, with the document's definitions when they are kept.
Inlined(schema, rootDef, keepDefinitions) ==
  IF keepDefinitions THEN [rootDef EXCEPT !.defs = schema.defs] ELSE rootDef

InlineRootDef(schema, includeDefinitions, idx) ==
  IF idx = 0 THEN schema
  ELSE Inlined(schema, schema.defs[1][idx].node,
               includeDefinitions \/ hasAnyRef(schema.defs[1][idx].node))

\* Inline the root definition if the top-level schema is just a $ref.
InlineRoot(schema, includeDefinitions) ==
  IF IsDefinitionsRef(schema) /\ schema.defs # <<>>
  THEN InlineRootDef(schema, includeDefinitions,
                     IndexOfName(schema.defs[1], SubSeq(schema.ref, 15, Len(schema.ref))))
  ELSE schema

\* Only drop definitions if nothing references them anymore.
DropDefinitions(schema, includeDefinitions) ==
  IF ~includeDefinitions /\ schema.defs # <<>> /\ ~hasAnyRef(schema)
  THEN [schema EXCEPT !.defs = <<>>]
  ELSE schema

Minimised(schema, minimiseOutput, includeDefinitions) ==
  IF minimiseOutput THEN DropDefinitions(InlineRoot(schema, includeDefinitions), includeDefinitions)
  ELSE schema

\* Inferred schemas: the documents of the resolution step, and documents whose
\* references sit in array items or only inside definitions.
MinimiseDocs ==
  ResolveDocs \cup
  {[Obj(<<Prop("list", ArrayOf(RefTo("Item")))>>) EXCEPT
      !.defs = <<<<Prop("Item", Obj(<<Prop("x", Leaf("integer"))>>))>>>>],
   [RefTo("Root") EXCEPT
      !.defs = <<<<Prop("Root", Obj(<<Prop("list", ArrayOf(RefTo("Item")))>>)),
                   Prop("Item", Obj(<<Prop("x", Leaf("integer"))>>))>>>>],
   [Obj(<<Prop("id", Leaf("integer"))>>) EXCEPT
      !.defs = <<<<Prop("A", Obj(<<Prop("b", RefTo("B"))>>)),
                   Prop("B", Obj(<<Prop("x", Leaf("integer"))>>))>>>>]}

OutputOptions == [minimiseOutput : BOOLEAN, includeDefinitions : BOOLEAN]

InitMinimise ==
  /\ items \in {<<s>> : s \in MinimiseDocs}
  /\ orig = items
  /\ params = [minimiseOutput |-> TRUE, includeDefinitions |-> FALSE]
  /\ out = NoResult
  /\ pc = "ready"

\* if (minimiseOutput) { ... } on the schema createSchema is about to return.
MinimiseOutput ==
  /\ pc = "ready"
  /\ \E p \in OutputOptions :
       /\ params' = p
       /\ out' = [NoResult EXCEPT !.status = "ok", !.resolved = items[1],
                    !.schema = Minimised(items[1], p.minimiseOutput, p.includeDefinitions)]
  /\ pc' = "done"
  /\ UNCHANGED <<items, orig>>

NextMinimise == MinimiseOutput

SpecMinimise == InitMinimise /\ [][NextMinimise]_vars

\* Every $ref of a document, its definitions included.
RECURSIVE RefsOf(_)
RefsOf(node) ==
  (IF node.ref = "" THEN {} ELSE {node.ref})
  \cup (IF node.props = <<>> THEN {}
        ELSE UNION {RefsOf(node.props[1][i].node) : i \in 1..Len(node.props[1])})
  \cup (IF node.items = <<>> THEN {} ELSE RefsOf(node.items[1]))
  \cup (IF node.defs = <<>> THEN {}
        ELSE UNION {RefsOf(node.defs[1][i].node) : i \in 1..Len(node.defs[1])})

\* The references the definitions block of a document can serve.
Served(doc) ==
  {"#/definitions/" \o RootDefinitions(doc)[i].name : i \in 1..Len(RootDefinitions(doc))}

Json(kind) == [kind |-> kind, node |-> Nd(<<>>, ""), inner |-> <<>>, text |-> ""]

SchemaValue(node) == [Json("schema") EXCEPT !.node = node]

WrapperValue(value) == [Json("wrapper") EXCEPT !.inner = <<value>>]

ArrayValue(elems) == [Json("array") EXCEPT !.inner = elems]

StringValue(text) == [Json("string") EXCEPT !.text = text]

\* typeof value === 'object' (null included)
TypeofObject(value) == value.kind \in {"schema", "wrapper", "array", "emptyObject", "null"}

\* The schema the examples of the operation use, as a document and as text.
PrepareSchema ==
  [RefTo("Root") EXCEPT
     !.defs = <<<<Prop("Root", Obj(<<Prop("id", Leaf("integer")), Prop("meta", RefTo("Meta")),
                                     Prop("tags", Leaf("array")),
                                     Prop("note", Nd(Scalar("string"), "json"))>>)),
                  Prop("Meta", Obj(<<Prop("x", Leaf("integer"))>>))>>>>]

PlainSchema == Obj(<<Prop("meta", Nd(Union(<<"object", "null">>), "")), Prop("id", Leaf("integer"))>>)

\* JSON.parse on the texts of the model: <<value>>, or <<>> when it throws.
JsonParse(text) ==
  CASE text = "{\"properties\":{\"meta\":{\"type\":[\"object\",\"null\"]},\"id\":{\"type\":\"integer\"}},\"type\":\"object\"}" ->
         <<SchemaValue(PlainSchema)>>
    [] text = "{\"schema\":{\"properties\":{\"meta\":{\"type\":[\"object\",\"null\"]},\"id\":{\"type\":\"integer\"}},\"type\":\"object\"}}" ->
         <<WrapperValue(SchemaValue(PlainSchema))>>
    [] text = "[{\"properties\":{\"meta\":{\"type\":[\"object\",\"null\"]},\"id\":{\"type\":\"integer\"}},\"type\":\"object\"}]" ->
         <<ArrayValue(<<SchemaValue(PlainSchema)>>)>>
    [] text = "null" -> <<Json("null")>>
    [] text = "123" -> <<Json("number")>>
    [] OTHER -> <<>>

\* resolveSchemaRef(schema, ref): <<definition>>, or <<>> for null.
resolveSchemaRef(schema, ref) ==
  IF StartsWith(ref, "#/definitions/") /\ schema.defs # <<>>
       /\ IndexOfName(schema.defs[1], SubSeq(ref, 15, Len(ref))) # 0
  THEN <<schema.defs[1][IndexOfName(schema.defs[1], SubSeq(ref, 15, Len(ref)))].node>>
  ELSE <<>>

getResolvedSchema(schema) ==
  IF schema.ref # "" /\ resolveSchemaRef(schema, schema.ref) # <<>>
  THEN resolveSchemaRef(schema, schema.ref)[1]
  ELSE schema

\* fieldSchema.$ref ? resolveSchemaRef(rootSchema, fieldSchema.$ref) || fieldSchema : fieldSchema
ResolvedField(rootSchema, fieldSchema) ==
  IF fieldSchema.ref # "" /\ resolveSchemaRef(rootSchema, fieldSchema.ref) # <<>>
  THEN resolveSchemaRef(rootSchema, fieldSchema.ref)[1]
  ELSE fieldSchema

\* Array.isArray(type) ? type : [type]
TypesOf(node) ==
  IF node.type = <<>> THEN {}
  ELSE {node.type[i] : i \in 2..Len(node.type)}

IsJsonField(node) ==
  \/ "object" \in TypesOf(node)
  \/ "array" \in TypesOf(node)
  \/ node.format \in {"json", "jsonb"}

FieldsOfResolved(rootSchema, schema) ==
  IF ~HasProperties(schema) THEN {}
  ELSE {Properties(schema)[i].name : i \in
          {j \in 1..Len(Properties(schema)) :
             IsJsonField(ResolvedField(rootSchema, Properties(schema)[j].node))}}

extractJsonFieldsFromSchema(rootSchema) ==
  FieldsOfResolved(rootSchema, getResolvedSchema(rootSchema))

isAlreadyJsonString(value) == value.kind = "jsonString"

\* JSON.stringify(value) or JSON.stringify(value, null, 2)
Stringified(value, prettyPrint) ==
  [kind |-> "jsonString", of |-> value.kind, pretty |-> prettyPrint]

StringifyField(field, fieldsToStringify, skipAlreadyStringified, prettyPrint) ==
  IF field.key \in fieldsToStringify /\ field.value.kind # "null"
       /\ ~(skipAlreadyStringified /\ isAlreadyJsonString(field.value))
       /\ field.value.kind \in {"object", "array"}
  THEN [field EXCEPT !.value = Stringified(field.value, prettyPrint)]
  ELSE field

stringifyNestedFields(data, fieldsToStringify, skipAlreadyStringified, prettyPrint) ==
  [i \in 1..Len(data) |->
     StringifyField(data[i], fieldsToStringify, skipAlreadyStringified, prettyPrint)]

PrepareError(errorType, message) ==
  [status |-> "error", errorType |-> errorType, message |-> message, items |-> <<>>,
   same |-> FALSE]

\* return [items] / return [outputItems]; same says that the items returned
\* are the input items themselves.
PrepareReturn(outputItems, same) ==
  [status |-> "ok", errorType |-> "", message |-> "", items |-> outputItems, same |-> same]

\* The end of prepareForDatabase once schema is assigned.
PrepareWith(input, p, schema) ==
  IF schema.kind = "null"
    THEN PrepareError("TypeError", "Cannot read properties of null (reading '$ref')")
  ELSE PrepareReturn(
         [i \in 1..Len(input) |->
            stringifyNestedFields(input[i],
              IF schema.kind = "schema" THEN extractJsonFieldsFromSchema(schema.node) ELSE {},
              p.skipAlreadyStringified, p.prettyPrint)],
         FALSE)

\* 'schema' in value && typeof value.schema === 'object'
HasSchemaWrapper(value) == value.kind = "wrapper" /\ TypeofObject(value.inner[1])

Unwrapped(value) == IF HasSchemaWrapper(value) THEN value.inner[1] ELSE value

\* The try block around JSON.parse and its catch.
PrepareParsed(input, p, parsed) ==
  IF parsed = <<>>
    THEN IF p.strictMode
           THEN PrepareError("NodeOperationError",
                  "Invalid JSON schema provided. Please provide a valid JSON schema from the Create Schema operation.")
         ELSE PrepareReturn(input, TRUE)
  ELSE PrepareWith(input, p,
         Unwrapped(IF parsed[1].kind = "array" /\ Len(parsed[1].inner) > 0
                   THEN parsed[1].inner[1] ELSE parsed[1]))

\* The schema parameter after the array-wrapped case.
PrepareSchemaInput(input, p, schemaInput) ==
  IF schemaInput.kind = "string" THEN PrepareParsed(input, p, JsonParse(schemaInput.text))
  ELSE PrepareWith(input, p, Unwrapped(schemaInput))

\* schemaInput[0].schema when the first element has a schema key, else schemaInput[0]
FirstOfArray(first) == IF first.kind = "wrapper" THEN first.inner[1] ELSE first

\* !schemaInput || (typeof schemaInput === 'object' && Object.keys(schemaInput).length === 0)
EmptySchemaInput(schemaInput) ==
  \/ schemaInput.kind \in {"undefined", "null", "emptyObject"}
  \/ (schemaInput.kind = "string" /\ schemaInput.text = "")
  \/ (schemaInput.kind = "array" /\ Len(schemaInput.inner) = 0)

\* prepareForDatabase(context): p holds the schema parameter and the options.
prepareForDatabase(input, p) ==
  IF Len(input) = 0
    THEN PrepareError("NodeOperationError",
           "No input data provided. Please provide data items to prepare for database insertion.")
  ELSE IF EmptySchemaInput(p.schema)
    THEN PrepareError("NodeOperationError",
           "Schema parameter is empty or invalid. Please provide a valid schema from the Create Schema operation.")
  ELSE PrepareSchemaInput(input, p,
         IF p.schema.kind = "array" THEN FirstOfArray(p.schema.inner[1]) ELSE p.schema)

\* Data items: a row with an object, an array, strings and a null.
Field(key, kind) == [key |-> key, value |-> [kind |-> kind, of |-> "", pretty |-> FALSE]]

DataItems ==
  {<<<<Field("id", "number"), Field("meta", "object"), Field("tags", "array")>>>>,
   <<<<Field("meta", "jsonString"), Field("note", "string")>>,
     <<Field("meta", "null"), Field("tags", "object"), Field("note", "object")>>>>,
   <<<<Field("id", "object")>>>>}

SchemaInputs ==
  {Json("undefined"), StringValue(""), Json("emptyObject"), ArrayValue(<<>>),
   StringValue("{oops"), StringValue("null"), StringValue("123"),
   StringValue("{\"properties\":{\"meta\":{\"type\":[\"object\",\"null\"]},\"id\":{\"type\":\"integer\"}},\"type\":\"object\"}"),
   StringValue("{\"schema\":{\"properties\":{\"meta\":{\"type\":[\"object\",\"null\"]},\"id\":{\"type\":\"integer\"}},\"type\":\"object\"}}"),
   StringValue("[{\"properties\":{\"meta\":{\"type\":[\"object\",\"null\"]},\"id\":{\"type\":\"integer\"}},\"type\":\"object\"}]"),
   SchemaValue(PrepareSchema), SchemaValue(PlainSchema),
   WrapperValue(SchemaValue(PrepareSchema)), WrapperValue(Json("null")),
   ArrayValue(<<WrapperValue(SchemaValue(PrepareSchema))>>),
   ArrayValue(<<SchemaValue(PlainSchema)>>)}

PrepareOptions ==
  [schema : SchemaInputs, skipAlreadyStringified : BOOLEAN, prettyPrint : BOOLEAN,
   strictMode : BOOLEAN]

InitPrepare ==
  /\ items \in DataItems \cup {<<>>}
  /\ orig = items
  /\ params = [schema |-> Json("undefined"), skipAlreadyStringified |-> TRUE,
               prettyPrint |-> FALSE, strictMode |-> FALSE]
  /\ out = PrepareReturn(<<>>, FALSE)
  /\ pc = "ready"

PrepareForDatabase ==
  /\ pc = "ready"
  /\ \E p \in PrepareOptions :
       /\ params' = p
       /\ out' = prepareForDatabase(items, p)
  /\ pc' = "done"
  /\ UNCHANGED <<items, orig>>

NextPrepare == PrepareForDatabase

SpecPrepare == InitPrepare /\ [][NextPrepare]_vars

\* The schema parameter is missing (nothing, an empty text, an empty object or
\* list) or invalid (a text that is not JSON).
MissingOrInvalidSchema ==
  \/ params.schema.kind \in {"undefined", "emptyObject"}
  \/ (params.schema.kind = "array" /\ params.schema.inner = <<>>)
  \/ (params.schema.kind = "string" /\ params.schema.text \in {"", "{oops"})

\* C19: Strict Mode decides between raising and passing through: with a
\* missing or invalid schema the operation raises an operation error when
\* Strict Mode is on, and when it is off it does not raise and returns the
\* input items unchanged.
C19_StrictModeDecides ==
  (pc = "done" /\ Len(orig) > 0 /\ MissingOrInvalidSchema) =>
    IF params.strictMode
    THEN out.status = "error" /\ out.errorType = "NodeOperationError"
    ELSE out.status = "ok" /\ out.items = orig

(***************************************************************************)
(* The required array after setRequiredFields.                             *)
(***************************************************************************)
\* setRequiredFields has run: called directly, or by createSchema with some
\* required field names.
RequiredCalled ==
  /\ pc = "done"
  /\ \/ params.op = "setRequiredFields"
     \/ (params.op = "createSchema" /\ params.requiredFieldNames # <<>>)

\* The node as setRequiredFields receives it: createSchema clears the required
\* arrays first when the inferred ones are overridden.
Received(node) ==
  IF params.op = "createSchema" /\ params.overrideInferredRequired
  THEN clearAllRequiredFields(node) ELSE node

\* The supplied names that match a property name, by position.
HitsOf(name) ==
  {f \in 1..Len(params.requiredFieldNames) :
     matchesField(params.requiredFieldNames[f], name, params.useSubstring,
                  params.caseInsensitive)}

MatchedNames(node) ==
  IF HasProperties(node) THEN {k \in {Keys(node)[i] : i \in 1..Len(Keys(node))} : HitsOf(k) # {}}
  ELSE {}

\* The array is replaced: something matched and there is nothing to merge with.
Replaced(node) ==
  /\ MatchedNames(node) # {}
  /\ ~(params.mergeWithExisting /\ Len(RequiredOrEmpty(node)) > 0)

NoNameTwice(seq) == \A i, j \in 1..Len(seq) : seq[i] = seq[j] => i = j

KeyIndex(node, name) == Least({i \in 1..Len(Keys(node)) : Keys(node)[i] = name})

\* a comes before b in the order of first match: by the first supplied name
\* that matches, then by position among the properties.
MatchedBefore(node, a, b) ==
  \/ Least(HitsOf(a)) < Least(HitsOf(b))
  \/ (Least(HitsOf(a)) = Least(HitsOf(b))
        /\ KeyIndex(node, a) < KeyIndex(node, b))

InFirstMatchOrder(node, seq) ==
  /\ {seq[i] : i \in 1..Len(seq)} = MatchedNames(node)
  /\ \A i, j \in 1..Len(seq) : i < j => MatchedBefore(node, seq[i], seq[j])

RECURSIVE TreeNodes(_)
TreeNodes(node) ==
  {node}
  \cup UNION {TreeNodes(RootDefinitions(node)[i].node) : i \in 1..Len(RootDefinitions(node))}
  \cup (IF HasProperties(node)
        THEN UNION {TreeNodes(Properties(node)[i].node) : i \in 1..Len(Properties(node))}
        ELSE {})
  \cup (IF node.items # <<>> THEN TreeNodes(node.items[1]) ELSE {})

\* The nodes clearAllRequiredFields reaches: the node and every definitions
\* entry, recursively.
RECURSIVE DefinitionNodes(_)
DefinitionNodes(node) ==
  {node}
  \cup UNION {DefinitionNodes(RootDefinitions(node)[i].node) :
                i \in 1..Len(RootDefinitions(node))}

RequiredEmptied(node) == node.required # <<>> => node.required[1] = <<>>

ClearedAll == pc = "done" /\ params.op = "clearAllRequiredFields"

\* C21: after clearAllRequiredFields every node of the schema tree that has a
\* required array has it empty: the root, every definitions entry, and every
\* object schema nested under properties or items.
C21_EveryRequiredEmptied ==
  ClearedAll => \A node \in TreeNodes(out.schema) : RequiredEmptied(node)

\* C22: setRequiredFields leaves a node with zero matches unchanged: a node
\* (the root or a definitions entry) none of whose property names matches a
\* supplied name has the same required array after the call as before it,
\* with mergeWithExisting true or false.
C22_NoMatchKeepsRequired ==
  RequiredCalled =>
    \A pr \in NodePairs(Received(out.resolved), out.schema) :
      MatchedNames(pr[1]) = {} => pr[2].required = pr[1].required

\* The name id on a root with the property name only: the root keeps its
\* required [name], and the definition Item, which has id, is rewritten.
C22_Witness ==
  /\ RequiredCalled
  /\ params.op = "setRequiredFields"
  /\ ~params.mergeWithExisting
  /\ params.requiredFieldNames = <<"id">>
  /\ MatchedNames(out.resolved) = {}
  /\ out.resolved.required = <<<<"name">>>>
  /\ out.schema.required = <<<<"name">>>>
  /\ Len(RootDefinitions(out.resolved)) > 0
  /\ RootDefinitions(out.resolved)[1].node.required = <<<<"note">>>>
  /\ RootDefinitions(out.schema)[1].node.required = <<<<"id">>>>

(***************************************************************************)
(* Flattening of a single-property root.                                   *)
(***************************************************************************)
\* The root of the document (as the call left it: definitions attached to the
\* nodes that were resolved) at the end of its chain of references.
DerefRoot == RefTarget(items[1], RootDefinitions(items[1]), Len(RootDefinitions(items[1])))

FirstWithProperties ==
  Least({i \in 1..Len(RootDefinitions(items[1])) :
           NonEmptyProperties(RootDefinitions(items[1])[i].node)})

\* The effective schema before flattening: the dereferenced root, or, when it
\* has no properties, the first definition that has some.
EffectiveTarget ==
  IF ~HasProperties(DerefRoot)
       /\ \E i \in 1..Len(RootDefinitions(items[1])) :
            NonEmptyProperties(RootDefinitions(items[1])[i].node)
  THEN RootDefinitions(items[1])[FirstWithProperties].node
  ELSE DerefRoot

SingleProperty == HasProperties(EffectiveTarget) /\ Len(Properties(EffectiveTarget)) = 1

\* The only property of the effective schema, dereferenced.
NestedTarget ==
  RefTarget(Properties(EffectiveTarget)[1].node, RootDefinitions(items[1]),
            Len(RootDefinitions(items[1])))

IsObjectSchema(node) ==
  \/ HasProperties(node)
  \/ node.type = Scalar("object")
  \/ (node.type # <<>> /\ node.type[1] = "u" /\ Has(Tail(node.type), "object"))

ResolveReturned == pc = "done" /\ Len(orig) = 1 /\ out.status = "ok"

\* C23: getEffectiveRootObjectSchema flattens only a single-property root.
\* When the effective schema has exactly one property and that property,
\* dereferenced, is an object schema with properties, the result has the
\* nested object's properties and required list; when the effective schema
\* has no property or two or more, or its single property is not an object
\* schema, the effective schema is returned as it is.
C23_FlattensOnlySingleProperty ==
  ResolveReturned =>
    IF SingleProperty /\ HasProperties(NestedTarget)
    THEN /\ out.schema.props = NestedTarget.props
         /\ RequiredOrEmpty(out.schema) = RequiredOrEmpty(NestedTarget)
    ELSE (~SingleProperty \/ ~IsObjectSchema(NestedTarget)) =>
           /\ out.schema.props = EffectiveTarget.props
           /\ out.schema.required = EffectiveTarget.required
           /\ out.schema.type = EffectiveTarget.type
           /\ out.schema.ref = EffectiveTarget.ref

(***************************************************************************)
(* The explicit primary-key list.                                          *)
(***************************************************************************)
ListedKeys == SplitList(params.primaryKeyFields)

\* The list has at least one entry that is not empty.
ExplicitKeys == Done /\ Len(ListedKeys) > 0

SanitizedAs(name) ==
  sanitizeColumnName(name, params.lowercaseAllFields, params.quoteIdentifiers)

InKeyList(i) == \E k \in 1..Len(ListedKeys) : SanitizedAs(NameAt(i)) = SanitizedAs(ListedKeys[k])

\* C24: an explicit primary-key list takes precedence over auto-detection:
\* when the list has a non-empty entry, the primary-key columns are exactly
\* the properties whose sanitized name equals the sanitized form of an entry,
\* and a property named id that is not in the list is no primary key, with
\* auto-detect on or off.
C24_ExplicitKeysTakePrecedence ==
  ExplicitKeys =>
    \A i \in 1..PropertyCount :
      /\ out.columns[i].primary <=> InKeyList(i)
      /\ (ToLowerCase(NameAt(i)) = "id" /\ ~InKeyList(i)) => ~out.columns[i].primary

\* The list "name" with auto-detect on, on a schema with id and name: name is
\* the primary key and id is not.
C24_Witness ==
  /\ ExplicitKeys
  /\ params.autoDetectPrimaryKey
  /\ params.primaryKeyFields = "name"
  /\ \E i, j \in 1..PropertyCount :
       /\ NameAt(i) = "id" /\ ~out.columns[i].primary
       /\ NameAt(j) = "name" /\ out.columns[j].primary

(***************************************************************************)
(* applyOverrides applied twice.                                           *)
(***************************************************************************)
AppliedTwice == pc = "again" /\ out.status = "ok"

\* C25: applyOverrides is idempotent for a fixed rule list: applying the
\* rules to the schema the first application left gives that same schema
\* (every node has the same type and format).
C25_OverridesIdempotent ==
  AppliedTwice => out.schema = out.resolved

\* The rules n*->integer, *a*->date on a schema whose createdAt is a string
\* with a format: the first application made it a date, the second kept it.
C25_Witness ==
  /\ AppliedTwice
  /\ params.overrideRulesText = "n*->integer, *a*->date, bogus"
  /\ orig[1] # out.resolved
  /\ \E i \in 1..PropertyCount :
       /\ NameAt(i) = "createdAt"
       /\ Properties(orig[1])[i].node.format = "date-time"
       /\ AfterAt(i).format = "date"
       /\ BeforeAt(i).format = "date"

(***************************************************************************)
(* mapJsonSchemaTypeToKnex as a function of one property and the dialect.  *)
(***************************************************************************)
MapTypes ==
  {<<>>, Scalar("string"), Scalar("integer"), Scalar("number"), Scalar("boolean"),
   Scalar("array"), Scalar("object"), Scalar("null"), Union(<<"string", "null">>),
   Union(<<"null", "array">>), Union(<<"object", "null">>)}

MapFormats == {"", "uuid", "date-time", "date", "time", "text", "json", "jsonb", "email", "binary"}

\* maxLength absent (0) and on both sides of the limit.
MaxLengths == {0, 1, 254, 255, 256, 1000}

MapProperties ==
  {[Nd(t, f) EXCEPT !.maxLength = m] : t \in MapTypes, f \in MapFormats, m \in MaxLengths}

InitMap ==
  /\ items \in {<<property>> : property \in MapProperties}
  /\ orig = items
  /\ params = DefaultParams
  /\ out = NoResult
  /\ pc = "ready"

\* mapJsonSchemaTypeToKnex(property, columnName, table, databaseType): the
\* column the builder is asked for is kept as the only column of out.
MapJsonSchemaTypeToKnex ==
  /\ pc = "ready"
  /\ \E d \in Dialects :
       /\ params' = [DefaultParams EXCEPT !.databaseType = d]
       /\ out' = [NoResult EXCEPT !.status = "ok",
                    !.columns = <<[type |-> mapJsonSchemaTypeToKnex(items[1], d)]>>]
  /\ pc' = "done"
  /\ UNCHANGED <<items, orig>>

NextMap == MapJsonSchemaTypeToKnex

SpecMap == InitMap /\ [][NextMap]_vars

Mapped == pc = "done" /\ Len(items) = 1 /\ Len(out.columns) = 1

\* The property's type is t, alone or in a union with null.
TypeIs(property, t) ==
  \/ property.type = Scalar(t)
  \/ /\ property.type # <<>>
     /\ property.type[1] = "u"
     /\ Has(Tail(property.type), t)
     /\ \A k \in 2..Len(property.type) : property.type[k] \in {t, "null"}

\* The formats that have a row of their own in the type table.
OwnFormats == {"uuid", "date-time", "date", "time", "text", "email", "uri", "hostname"}

\* A container or JSON-typed property: format json or jsonb, or type array or
\* object with no format that has a row of its own.
JsonSource(property) ==
  \/ property.format \in {"json", "jsonb"}
  \/ (property.format \notin OwnFormats
        /\ (TypeIs(property, "array") \/ TypeIs(property, "object")))

\* The JSON storage row of the type table.
JsonColumn(databaseType) ==
  CASE databaseType \in {"pg", "cockroachdb"} -> Call("jsonb")
    [] databaseType = "mysql2" -> Call("json")
    [] databaseType = "sqlite3" -> Call("text")
    [] databaseType = "mssql" -> SpecificType("nvarchar(max)")
    [] databaseType = "oracledb" -> SpecificType("clob")

PlainString(property) ==
  /\ TypeIs(property, "string")
  /\ property.format \notin OwnFormats \cup {"json", "jsonb"}

InvalidTableName ==
  /\ pc = "done"
  /\ Len(orig) > 0
  /\ ~params.quoteIdentifiers
  /\ RejectedTableName(params.tableName)

\* C28: the steps run in the stated order, table-name validation first and
\* schema resolution second: an invocation with an invalid table name
\* (quoting off) fails with the naming error even when its schema has no
\* usable properties, and nothing is resolved or changed in the input
\* document before the table name is validated.
C28_TableNameValidatedFirst ==
  InvalidTableName =>
    /\ NamingError
    /\ out.steps = <<"validateTableName">>
    /\ items = orig

(***************************************************************************)
(* generateSqlDdl on documents with references, with and without Lowercase *)
(* All Fields.                                                             *)
(***************************************************************************)
LowercaseParams ==
  {[DefaultParams EXCEPT !.lowercaseAllFields = l, !.quoteIdentifiers = q] :
     l \in BOOLEAN, q \in BOOLEAN}

InitLowercase ==
  /\ items \in {<<s>> : s \in ResolveDocs}
  /\ orig = items
  /\ params = DefaultParams
  /\ out = NoResult
  /\ pc = "ready"

\* One execution of the operation on a document with references.
GenerateSqlDdlOnDocument ==
  /\ pc = "ready"
  /\ \E p \in LowercaseParams : Returned(p, generateSqlDdl(items, p))
  /\ pc' = "done"
  /\ UNCHANGED orig

NextLowercase == GenerateSqlDdlOnDocument

SpecLowercase == InitLowercase /\ [][NextLowercase]_vars

\* C29: with Lowercase All Fields on, generateSqlDdl terminates for every
\* input schema, a root that is a $ref into definitions included: once the
\* schema is resolved, lowercaseSchemaProperties visits each definition a
\* bounded number of times and returns, so the run ends with its SQL or with
\* an operation error and never by exhausting the call stack.
C29_LowercaseTerminates ==
  (pc = "done" /\ params.lowercaseAllFields /\ out.status # "hang") =>
    /\ out.status \in {"ok", "error"}
    /\ out.errorType # "RangeError"

(***************************************************************************)
(* The descent of the override walk below a property a rule applied to.    *)
(***************************************************************************)
\* The properties of the root schema a rule of the call applies to.
OverriddenRoot ==
  {i \in 1..Len(Properties(out.resolved)) :
     RuleLoop(Properties(out.resolved)[i].name, out.rules, 1) # 0}

BeforeOf(i) == Properties(out.resolved)[i].node

AfterOf(i) == Properties(out.schema)[i].node

\* The type the node has after its override makes the walk go below it.
DescendsProperties(node) == node.type = Scalar("object") /\ HasProperties(node)

DescendsItems(node) ==
  /\ node.type = Scalar("array")
  /\ node.items # <<>>
  /\ node.items[1].type = Scalar("object")
  /\ HasProperties(node.items[1])

\* What a visit leaves of a child at the given path below a root property.
VisitedChild(child) ==
  IF RuleLoop(child.name, out.rules, 1) = 0 THEN child.node
  ELSE ApplyRule(child.node, out.rules[RuleLoop(child.name, out.rules, 1)])

ChildrenVisited(i) ==
  \A j \in 1..Len(Properties(BeforeOf(i))) :
    /\ Properties(AfterOf(i))[j].node.type = VisitedChild(Properties(BeforeOf(i))[j]).type
    /\ Properties(AfterOf(i))[j].node.format = VisitedChild(Properties(BeforeOf(i))[j]).format

ChildrenKept(i) ==
  /\ AfterOf(i).props = BeforeOf(i).props
  /\ AfterOf(i).items = BeforeOf(i).items

\* C30: in the override walk the descent below a property is decided from the
\* property's type after its own override: when the rule left a type other
\* than object with properties or array with object items, the children are
\* not visited and stay as they were; when the rule left type object on a node
\* with properties, the children are visited in the same pass, each getting
\* the first rule that matches its name.
C30_DescentFromOverriddenType ==
  Done =>
    \A i \in OverriddenRoot :
      /\ (~DescendsProperties(AfterOf(i)) /\ ~DescendsItems(AfterOf(i))) => ChildrenKept(i)
      /\ DescendsProperties(AfterOf(i)) => ChildrenVisited(i)

\* Both cases in one call: meta (object) becomes boolean and its child id keeps
\* type integer, note (string holding properties) becomes object and its child
\* id becomes text.
C30_Witness ==
  /\ Done
  /\ Len(Properties(out.resolved)) = 2
  /\ \E i, k \in OverriddenRoot :
       /\ Properties(out.resolved)[i].name = "meta"
       /\ BeforeOf(i).type = Scalar("object")
       /\ AfterOf(i).type = Scalar("boolean")
       /\ \E j \in 1..Len(Properties(BeforeOf(i))) :
            /\ Properties(BeforeOf(i))[j].name = "id"
            /\ RuleLoop("id", out.rules, 1) # 0
            /\ Properties(AfterOf(i))[j].node = Leaf("integer")
       /\ Properties(out.resolved)[k].name = "note"
       /\ BeforeOf(k).type = Scalar("string")
       /\ AfterOf(k).type = Scalar("object")
       /\ Properties(BeforeOf(k))[1].node = Leaf("integer")
       /\ Properties(AfterOf(k))[1].node = Nd(Scalar("string"), "text")

=============================================================================
